---- MODULE Spec2Model ----
(***************************************************************************)
(* The MJXGUI equation editor: the expression tree (Expression, Block,     *)
(* Component), the Cursor that edits and navigates it, the caret markup    *)
(* (toDisplayLatex) and the host's event handlers.                         *)
(*                                                                         *)
(* Objects live in a heap of nodes addressed by identifiers; a reference   *)
(* is an identifier, null or undefined.  The cursor's addresses position   *)
(* and child are half-integers in the source; here they hold TWICE the     *)
(* source value, so -0.5 is -1, 0 is 0, 0.5 is 1: odd values are the gaps, *)
(* even values are "on element N".  Markup strings are sequences of        *)
(* tokens; every token is either the blank " " or has no blank at its      *)
(* ends, so String.trim is the removal of blank tokens at both ends.       *)
(***************************************************************************)
EXTENDS Integers, Sequences, FiniteSets, TLC

\* ------------------------------------------------------------------ bounds
\* Live tree nodes (components and blocks) the editing session may hold.
MaxNodes == 6
\* Expressions the history list may hold.
MaxHistory == 1

\* ------------------------------------------------------------- references
NULL == 0
UNDEF == -1
\* Nodes toDisplayLatex constructs: the caret TextComponent and its Block,
\* the FrameBox and its Block.
ScratchNodes == 4

\* Object identities: room for the live nodes, for the component one
\* handler constructs and for the caret and the frame of its markup.
NodeIds == 1..(MaxNodes + 2 * ScratchNodes)

Characters == {"a", "b", "c"}
ColorSet == {"red"}

Min(a, b) == IF a < b THEN a ELSE b
Max(a, b) == IF a > b THEN a ELSE b

\* Math.floor and Math.ceil of a half-integer held doubled; the result is
\* the plain integer (an array index).
Floor(x2) == x2 \div 2
Ceil(x2) == (x2 + 1) \div 2

\* ---------------------------------------------------------------- arrays
\* Array.prototype.splice(position, 0, x) with a 0-based position.
SpliceStart(len, p) == IF p < 0 THEN Max(len + p, 0) ELSE Min(p, len)

SpliceIn(seq, p, x) ==
    LET i == SpliceStart(Len(seq), p)
    IN SubSeq(seq, 1, i) \o <<x>> \o SubSeq(seq, i + 1, Len(seq))

\* Array.prototype.splice(position, 1).
SpliceOut(seq, p) ==
    LET i == SpliceStart(Len(seq), p)
    IN SubSeq(seq, 1, i) \o SubSeq(seq, i + 2, Len(seq))

\* Array.prototype.indexOf: 0-based index of the first x, or -1.
IndexOf(seq, x) ==
    IF \E i \in 1..Len(seq) : seq[i] = x
    THEN (CHOOSE i \in 1..Len(seq) : seq[i] = x /\ \A j \in 1..(i - 1) : seq[j] # x) - 1
    ELSE -1

\* seq[i] of an array of references, 0-based; undefined outside the array.
At(seq, i) == IF i >= 0 /\ i < Len(seq) THEN seq[i + 1] ELSE UNDEF

\* ------------------------------------------------------------------ nodes
\* A child of a Block is a string or a reference to a Component.
StrChild(text) == [str |-> text, ref |-> NULL]
RefChild(id) == [str |-> "", ref |-> id]
IsString(c) == c.ref = NULL

FreeNode ==
    [kind |-> "free", blocks |-> <<>>, children |-> <<>>, parent |-> NULL,
     latexData |-> "", color |-> "null", rows |-> 0, cols |-> 0]

\* new Block(): children = [], parent = the argument (undefined when omitted).
NewBlock(parent) ==
    [kind |-> "Block", blocks |-> <<>>, children |-> <<>>, parent |-> parent,
     latexData |-> "", color |-> "null", rows |-> 0, cols |-> 0]

IsNode(h, id) == id \in NodeIds /\ h[id].kind # "free"
IsBlock(h, id) == id \in NodeIds /\ h[id].kind = "Block"
IsComponent(h, id) == IsNode(h, id) /\ h[id].kind # "Block"

\* component instanceof MJXGUISymbol || component instanceof TextComponent
IsLeaf(h, id) == id \in NodeIds /\ h[id].kind \in {"TextComponent", "MJXGUISymbol"}

\* Number of Blocks each class constructs.
Arity(kind) ==
    CASE kind = "MJXGUISymbol" -> 0
      [] kind = "TextComponent" -> 1
      [] kind = "Sqrt" -> 1
      [] kind = "FrameBox" -> 1
      [] kind = "TemplateTwoBlockContinuousComponent" -> 2
      [] kind = "TemplateThreeBlockComponent" -> 3

FreeIds(h) == {id \in NodeIds : h[id].kind = "free"}

\* The n lowest free identifiers, ascending: the objects a constructor makes.
RECURSIVE Lowest(_, _)
Lowest(S, n) ==
    IF n = 0 \/ S = {} THEN <<>>
    ELSE LET m == CHOOSE x \in S : \A y \in S : x <= y
         IN <<m>> \o Lowest(S \ {m}, n - 1)

Fresh(h, n) == Lowest(FreeIds(h), n)

\* A constructor without the default: the argument as it was passed.
ParentAsPassed(parent) == parent

\* Component's constructor(blocks = [], parent = null): an argument left
\* out, or undefined, takes the default.
DefaultParent(parent) == IF parent = UNDEF THEN NULL ELSE parent

\* new <kind>(parent, latexData): the component at ids[1] owning new Blocks
\* at ids[2..]; every Block's parent is the component.  TextComponent and
\* FrameBox take no color, MJXGUISymbol keeps the base class's null.
Construct(h, ids, kind, parent, latexData, color) ==
    [id \in NodeIds |->
        IF id = ids[1]
        THEN [kind |-> kind,
              blocks |-> [i \in 1..Arity(kind) |-> ids[i + 1]],
              children |-> <<>>, parent |-> DefaultParent(parent), latexData |-> latexData,
              color |-> IF kind \in {"TextComponent", "FrameBox", "MJXGUISymbol"}
                        THEN "null" ELSE color,
              rows |-> 0, cols |-> 0]
        ELSE IF \E i \in 1..Arity(kind) : ids[i + 1] = id
        THEN NewBlock(ids[1])
        ELSE h[id]]

\* The characters of a decimal numeral and their values.
Digits == {"0", "1", "2", "3", "4", "5", "6", "7", "8", "9"}
DigitValue(ch) ==
    CASE ch = "0" -> 0 [] ch = "1" -> 1 [] ch = "2" -> 2 [] ch = "3" -> 3
      [] ch = "4" -> 4 [] ch = "5" -> 5 [] ch = "6" -> 6 [] ch = "7" -> 7
      [] ch = "8" -> 8 [] ch = "9" -> 9

\* parseInt over the characters of a string that starts with a digit: the
\* value of the leading digits, acc being the value read so far.
RECURSIVE ParseIntFrom(_, _)
ParseIntFrom(chars, acc) ==
    IF chars = <<>> \/ Head(chars) \notin Digits THEN acc
    ELSE ParseIntFrom(Tail(chars), acc * 10 + DigitValue(Head(chars)))

parseInt(chars) == ParseIntFrom(chars, 0)

\* String.prototype.split(sep) for a one-character separator: the pieces
\* between the separators, piece being the one under construction.
RECURSIVE SplitFrom(_, _, _)
SplitFrom(chars, sep, piece) ==
    IF chars = <<>> THEN <<piece>>
    ELSE IF Head(chars) = sep THEN <<piece>> \o SplitFrom(Tail(chars), sep, <<>>)
    ELSE SplitFrom(Tail(chars), sep, Append(piece, Head(chars)))

Split(chars, sep) == SplitFrom(chars, sep, <<>>)

\* MatrixComponent's constructor: rc = latexData.split("x"), rows and cols
\* are parseInt of rc[0] and rc[1].
MatrixRows(latexData) == parseInt(Split(latexData, "x")[1])
MatrixCols(latexData) == parseInt(Split(latexData, "x")[2])

\* new MatrixComponent(parent, latexData): the component at ids[1] owning
\* rows*cols new Blocks at ids[2..], each Block's parent the component; the
\* constructor keeps rows and cols and no latexData.
ConstructMatrix(h, ids, parent, latexData, color) ==
    LET rows == MatrixRows(latexData)
        cols == MatrixCols(latexData)
    IN [id \in NodeIds |->
           IF id = ids[1]
           THEN [kind |-> "MatrixComponent",
                 blocks |-> [i \in 1..(rows * cols) |-> ids[i + 1]],
                 children |-> <<>>, parent |-> DefaultParent(parent), latexData |-> "",
                 color |-> color, rows |-> rows, cols |-> cols]
           ELSE IF \E i \in 1..(rows * cols) : ids[i + 1] = id
           THEN NewBlock(ids[1])
           ELSE h[id]]

\* Expression.add putting the component first (unshift for splice).
ExpressionAddFirst(components, c, p) == <<c>> \o components
\* Expression.add(component, position)
ExpressionAdd(components, c, p) == SpliceIn(components, p, c)
\* Expression.remove(position)
ExpressionRemove(components, p) == SpliceOut(components, p)
\* Block.addChild(component, position)
addChild(h, b, c, p) == [h EXCEPT ![b].children = SpliceIn(@, p, c)]
\* Block.removeChild(position)
removeChild(h, b, p) == [h EXCEPT ![b].children = SpliceOut(@, p)]
\* Component.addBlock(block, position)
addBlockAtEnd(h, c, b, p) == [h EXCEPT ![c].blocks = Append(@, b)]
addBlock(h, c, b, p) == [h EXCEPT ![c].blocks = SpliceIn(@, p, b)]
\* Component.removeBlock(position)
removeBlock(h, c, p) == [h EXCEPT ![c].blocks = SpliceOut(@, p)]

\* BlocksEmpty answering by the first block alone (return true inside the
\* loop).
BlocksEmptyByFirst(h, bs) ==
    IF bs = <<>> THEN "true"
    ELSE IF ~IsBlock(h, Head(bs)) THEN "throw"
    ELSE IF Len(h[Head(bs)].children) # 0 THEN "false"
    ELSE "true"

\* Component.isEmpty over the blocks array bs: "true", "false", or "throw"
\* when an element met before a non-empty Block has no children array.
RECURSIVE BlocksEmpty(_, _)
BlocksEmpty(h, bs) ==
    IF bs = <<>> THEN "true"
    ELSE IF ~IsBlock(h, Head(bs)) THEN "throw"
    ELSE IF Len(h[Head(bs)].children) # 0 THEN "false"
    ELSE BlocksEmpty(h, Tail(bs))

isEmpty(h, c) == BlocksEmpty(h, h[c].blocks)

\* ----------------------------------------------------------------- markup
IsBlank(tok) == tok = " "

RECURSIVE TrimLeft(_)
TrimLeft(toks) ==
    IF toks # <<>> /\ IsBlank(Head(toks)) THEN TrimLeft(Tail(toks)) ELSE toks

RECURSIVE TrimRight(_)
TrimRight(toks) ==
    IF toks # <<>> /\ IsBlank(toks[Len(toks)])
    THEN TrimRight(SubSeq(toks, 1, Len(toks) - 1)) ELSE toks

\* String.prototype.trim
Trim(toks) == TrimRight(TrimLeft(toks))

\* Markup of a reference that is no node (undefined.toLatex() is a
\* TypeError): a token no markup contains.
TypeErrorToken == <<"#TypeError">>

RECURSIVE toLatex(_, _)
RECURSIVE ChildrenToLatex(_, _)
RECURSIVE MatrixCellsToLatex(_, _, _, _)

\* The loop of Block.toLatex and Expression.toLatex over the elements.
ChildrenToLatex(h, cs) ==
    IF cs = <<>> THEN <<>>
    ELSE (IF IsString(Head(cs)) THEN <<Head(cs).str>> ELSE toLatex(h, Head(cs).ref))
         \o ChildrenToLatex(h, Tail(cs))

\* The loops of MatrixComponent.toLatex reading the cells by columns
\* (blocks[j*rows+i] for blocks[i*cols+j]).
MatrixCellsByColumns(h, id, i, j) ==
    LET n == h[id]
    IN IF i >= n.rows THEN <<>>
       ELSE IF j >= n.cols THEN MatrixCellsToLatex(h, id, i + 1, 0)
       ELSE toLatex(h, At(n.blocks, (j * n.rows) + i))
            \o (IF j = n.cols - 1
                THEN (IF i # n.rows - 1 THEN <<" ", "\\\\", " ">> ELSE <<>>)
                ELSE <<" ", "&", " ">>)
            \o MatrixCellsToLatex(h, id, i, j + 1)

\* The loops of MatrixComponent.toLatex from row i, column j on: the cell
\* blocks[i*cols+j], then " \\\\ " after the last cell of a row that is not
\* the last row, " & " after any other cell of a row.
MatrixCellsToLatex(h, id, i, j) ==
    LET n == h[id]
    IN IF i >= n.rows THEN <<>>
       ELSE IF j >= n.cols THEN MatrixCellsToLatex(h, id, i + 1, 0)
       ELSE toLatex(h, At(n.blocks, (i * n.cols) + j))
            \o (IF j = n.cols - 1
                THEN (IF i # n.rows - 1 THEN <<" ", "\\\\", " ">> ELSE <<>>)
                ELSE <<" ", "&", " ">>)
            \o MatrixCellsToLatex(h, id, i, j + 1)

\* toLatex rendering a Block without children as the empty string (the
\* placeholder branch dropped).
toLatexBlankWhenEmpty(h, id) ==
    IF ~IsNode(h, id) THEN TypeErrorToken
    ELSE LET n == h[id]
             B(i) == toLatex(h, At(n.blocks, i))
         IN CASE n.kind = "Block" -> Trim(ChildrenToLatex(h, n.children))
              [] n.kind = "TextComponent" -> B(0)
              [] n.kind = "MJXGUISymbol" -> <<n.latexData, " ">>
              [] n.kind = "Sqrt" -> <<"\\sqrt{">> \o B(0) \o <<"}">>
              [] n.kind = "FrameBox" -> <<"\\boxed{">> \o B(0) \o <<"}">>
              [] n.kind = "TemplateTwoBlockContinuousComponent" ->
                    <<"\\", n.latexData, "{">> \o B(0) \o <<"}{">> \o B(1) \o <<"}">>
              [] n.kind = "TemplateThreeBlockComponent" ->
                    <<"\\", n.latexData, "_{">> \o B(0) \o <<"}^{">> \o B(1)
                        \o <<"}{">> \o B(2) \o <<"}">>
              [] n.kind = "MatrixComponent" ->
                    <<"\\begin{matrix}">> \o MatrixCellsToLatex(h, id, 0, 0)
                        \o <<"\\end{matrix}">>

\* toLatex of the node id, by its class.
toLatex(h, id) ==
    IF ~IsNode(h, id) THEN TypeErrorToken
    ELSE LET n == h[id]
             B(i) == toLatex(h, At(n.blocks, i))
         IN CASE n.kind = "Block" ->
                    IF Len(n.children) = 0
                    THEN <<"\\color{", (IF IsNode(h, n.parent) THEN h[n.parent].color ELSE "#TypeError"),
                           "}{\\boxed{&#8200;}}">>
                    ELSE Trim(ChildrenToLatex(h, n.children))
              [] n.kind = "TextComponent" -> B(0)
              [] n.kind = "MJXGUISymbol" -> <<n.latexData, " ">>
              [] n.kind = "Sqrt" -> <<"\\sqrt{">> \o B(0) \o <<"}">>
              [] n.kind = "FrameBox" -> <<"\\boxed{">> \o B(0) \o <<"}">>
              [] n.kind = "TemplateTwoBlockContinuousComponent" ->
                    <<"\\", n.latexData, "{">> \o B(0) \o <<"}{">> \o B(1) \o <<"}">>
              [] n.kind = "TemplateThreeBlockComponent" ->
                    <<"\\", n.latexData, "_{">> \o B(0) \o <<"}^{">> \o B(1)
                        \o <<"}{">> \o B(2) \o <<"}">>
              [] n.kind = "MatrixComponent" ->
                    <<"\\begin{matrix}">> \o MatrixCellsToLatex(h, id, 0, 0)
                        \o <<"\\end{matrix}">>

\* Expression.toLatex over the components array.
ExpressionToLatex(h, components) ==
    Trim(ChildrenToLatex(h, [i \in 1..Len(components) |-> RefChild(components[i])]))

\* ----------------------------------------------------------------- cursor
\* A Cursor together with the objects it reaches: s.heap the nodes, s.exprs
\* the Expression objects (their components arrays), s.expression the
\* cursor's Expression, and the cursor's fields.  s.thrown records that the
\* running call ended in an uncaught TypeError; the fields then hold what
\* the statements before the throw assigned.
Components(s) == s.exprs[s.expression]

Throw(s) == [s EXCEPT !.thrown = TRUE]

\* addText inserting left of the element before the cursor (Math.floor
\* for Math.ceil).
addTextAtFloor(s, text) ==
    LET ids == Fresh(s.heap, 2)
        h1 == Construct(s.heap, ids, "TextComponent", s.block, "", "null")
        h2 == addChild(h1, ids[2], StrChild(text), Len(h1[ids[2]].children))
    IN IF s.block = NULL
       THEN [s EXCEPT !.heap = h2,
                      !.exprs[s.expression] = ExpressionAdd(@, ids[1], Floor(s.position)),
                      !.child = -1,
                      !.position = @ + 2]
       ELSE IF ~IsBlock(s.heap, s.block) THEN Throw(s)
       ELSE [s EXCEPT !.heap = addChild(h2, s.block, RefChild(ids[1]), Floor(s.child)),
                      !.child = @ + 2]

\* addText advancing position in a block too (this.position++ in both
\* branches).
addTextAdvancesPosition(s, text) ==
    LET ids == Fresh(s.heap, 2)
        h1 == Construct(s.heap, ids, "TextComponent", s.block, "", "null")
        h2 == addChild(h1, ids[2], StrChild(text), Len(h1[ids[2]].children))
    IN IF s.block = NULL
       THEN [s EXCEPT !.heap = h2,
                      !.exprs[s.expression] = ExpressionAdd(@, ids[1], Ceil(s.position)),
                      !.child = -1,
                      !.position = @ + 2]
       ELSE IF ~IsBlock(s.heap, s.block) THEN Throw(s)
       ELSE [s EXCEPT !.heap = addChild(h2, s.block, RefChild(ids[1]), Ceil(s.child)),
                      !.child = @ + 2,
                      !.position = @ + 2]

\* Cursor.addText(text)
addText(s, text) ==
    LET ids == Fresh(s.heap, 2)
        h1 == Construct(s.heap, ids, "TextComponent", s.block, "", "null")
        h2 == addChild(h1, ids[2], StrChild(text), Len(h1[ids[2]].children))
    IN IF s.block = NULL
       THEN [s EXCEPT !.heap = h2,
                      !.exprs[s.expression] = ExpressionAdd(@, ids[1], Ceil(s.position)),
                      !.child = -1,
                      !.position = @ + 2]
       ELSE IF ~IsBlock(s.heap, s.block) THEN Throw(s)
       ELSE [s EXCEPT !.heap = addChild(h2, s.block, RefChild(ids[1]), Ceil(s.child)),
                      !.child = @ + 2]

\* addComponent entering the last block of a container, as seekLeft does,
\* for the first.
addComponentEntersLast(s, c) ==
    IF s.block = NULL
    THEN LET t == [s EXCEPT !.exprs[s.expression] = ExpressionAdd(@, c, Ceil(s.position)),
                            !.position = 2 * Ceil(s.position)]
         IN IF IsLeaf(s.heap, c)
            THEN [t EXCEPT !.block = NULL, !.component = NULL,
                           !.position = @ + 1, !.child = -1]
            ELSE [t EXCEPT !.block = At(s.heap[c].blocks, Len(s.heap[c].blocks) - 1),
                           !.component = c, !.child = -1]
    ELSE IF ~IsBlock(s.heap, s.block) THEN Throw(s)
    ELSE LET t == [s EXCEPT !.heap = addChild(@, s.block, RefChild(c), Ceil(s.child))]
         IN IF IsLeaf(s.heap, c)
            THEN [t EXCEPT !.child = @ + 2]
            ELSE [t EXCEPT !.component = c,
                           !.block = At(s.heap[c].blocks, Len(s.heap[c].blocks) - 1),
                           !.child = -1]

\* addComponent stepping over every component it inserts, container or
\* leaf (the instanceof test dropped).
addComponentSkipsContainer(s, c) ==
    IF s.block = NULL
    THEN [s EXCEPT !.exprs[s.expression] = ExpressionAdd(@, c, Ceil(s.position)),
                   !.position = 2 * Ceil(s.position) + 1,
                   !.block = NULL, !.component = NULL, !.child = -1]
    ELSE IF ~IsBlock(s.heap, s.block) THEN Throw(s)
    ELSE [s EXCEPT !.heap = addChild(@, s.block, RefChild(c), Ceil(s.child)),
                   !.child = @ + 2]

\* addComponent leaving position in the gap when it enters a container at
\* top level (this.position = Math.ceil(this.position) dropped).
addComponentKeepsGap(s, c) ==
    IF s.block = NULL
    THEN LET t == [s EXCEPT !.exprs[s.expression] = ExpressionAdd(@, c, Ceil(s.position))]
         IN IF IsLeaf(s.heap, c)
            THEN [t EXCEPT !.block = NULL, !.component = NULL,
                           !.position = 2 * Ceil(s.position) + 1, !.child = -1]
            ELSE [t EXCEPT !.block = At(s.heap[c].blocks, 0), !.component = c,
                           !.child = -1]
    ELSE IF ~IsBlock(s.heap, s.block) THEN Throw(s)
    ELSE LET t == [s EXCEPT !.heap = addChild(@, s.block, RefChild(c), Ceil(s.child))]
         IN IF IsLeaf(s.heap, c)
            THEN [t EXCEPT !.child = @ + 2]
            ELSE [t EXCEPT !.component = c, !.block = At(s.heap[c].blocks, 0),
                           !.child = -1]

\* Cursor.addComponent(component); the component is already constructed.
addComponent(s, c) ==
    IF s.block = NULL
    THEN LET t == [s EXCEPT !.exprs[s.expression] = ExpressionAdd(@, c, Ceil(s.position)),
                            !.position = 2 * Ceil(s.position)]
         IN IF IsLeaf(s.heap, c)
            THEN [t EXCEPT !.block = NULL, !.component = NULL,
                           !.position = @ + 1, !.child = -1]
            ELSE [t EXCEPT !.block = At(s.heap[c].blocks, 0), !.component = c,
                           !.child = -1]
    ELSE IF ~IsBlock(s.heap, s.block) THEN Throw(s)
    ELSE LET t == [s EXCEPT !.heap = addChild(@, s.block, RefChild(c), Ceil(s.child))]
         IN IF IsLeaf(s.heap, c)
            THEN [t EXCEPT !.child = @ + 2]
            ELSE [t EXCEPT !.component = c, !.block = At(s.heap[c].blocks, 0),
                           !.child = -1]

\* The first branch of Cursor.removeComponent up to its call of itself: the
\* cursor is put on the leaf left of it.
removeComponentOntoLeaf(s, prevComponent) ==
    [s EXCEPT !.position = 2 * Floor(s.position),
              !.component = prevComponent,
              !.block = At(s.heap[prevComponent].blocks, 0),
              !.child = -1]

\* removeComponentTopLevel with the address left where it was (the
\* statement this.position -= 0.5 dropped).
removeComponentTopLevelKeepsPosition(s) ==
    LET i == IndexOf(Components(s), s.component)
    IN [s EXCEPT !.exprs[s.expression] = IF i >= 0 THEN ExpressionRemove(@, i) ELSE @,
                 !.component = NULL,
                 !.block = NULL,
                 !.child = -1]

\* removeComponentTopLevel calling this.expression.remove() without the
\* index found: the default takes out the last component.
removeComponentTopLevelLast(s) ==
    [s EXCEPT !.exprs[s.expression] = ExpressionRemove(@, Len(@) - 1),
              !.position = @ - 1,
              !.component = NULL,
              !.block = NULL,
              !.child = -1]

\* The second branch: the cursor's component is top-level.
removeComponentTopLevel(s) ==
    LET i == IndexOf(Components(s), s.component)
    IN [s EXCEPT !.exprs[s.expression] = IF i >= 0 THEN ExpressionRemove(@, i) ELSE @,
                 !.position = @ - 1,
                 !.component = NULL,
                 !.block = NULL,
                 !.child = -1]

\* removeComponentNested leaving the cursor in the component it removed
\* (the assignments of this.block and this.component dropped).
removeComponentNestedStays(s) ==
    LET parentBlock == s.heap[s.component].parent
    IN IF ~IsBlock(s.heap, parentBlock) THEN Throw(s)
       ELSE LET i == IndexOf(s.heap[parentBlock].children, RefChild(s.component))
            IN [s EXCEPT !.heap = IF i >= 0 THEN removeChild(@, parentBlock, i) ELSE @,
                         !.child = IF i >= 0 THEN 2 * i - 1 ELSE @]

\* The third branch: the cursor's component is a child of a Block.
removeComponentNested(s) ==
    LET parentBlock == s.heap[s.component].parent
    IN IF ~IsBlock(s.heap, parentBlock) THEN Throw(s)
       ELSE LET i == IndexOf(s.heap[parentBlock].children, RefChild(s.component))
            IN [s EXCEPT !.heap = IF i >= 0 THEN removeChild(@, parentBlock, i) ELSE @,
                         !.child = IF i >= 0 THEN 2 * i - 1 ELSE @,
                         !.block = parentBlock,
                         !.component = s.heap[parentBlock].parent]

\* Cursor.removeComponent()
RECURSIVE removeComponent(_)
removeComponent(s) ==
    IF s.block = NULL
    THEN LET prevComponent == At(Components(s), Floor(s.position))
         IN IF IsLeaf(s.heap, prevComponent)
            THEN removeComponent(removeComponentOntoLeaf(s, prevComponent))
            ELSE s
    ELSE IF ~IsComponent(s.heap, s.component) THEN Throw(s)
    ELSE IF s.heap[s.component].parent = NULL THEN removeComponentTopLevel(s)
    ELSE removeComponentNested(s)

\* removeComponentCalls with the cursor's block left null before the call
\* of itself (the assignment this.block = prevComponent.blocks[0] dropped).
RECURSIVE removeComponentCallsKeepingBlock(_, _)
removeComponentCallsKeepingBlock(s, limit) ==
    IF limit = 0 THEN 0
    ELSE IF s.block = NULL
    THEN LET prevComponent == At(Components(s), Floor(s.position))
         IN IF IsLeaf(s.heap, prevComponent)
            THEN 1 + removeComponentCallsKeepingBlock(
                         [removeComponentOntoLeaf(s, prevComponent) EXCEPT !.block = NULL],
                         limit - 1)
            ELSE 0
    ELSE 0

\* The calls of itself that Cursor.removeComponent() makes, the calls
\* those calls make included, counted as far as limit: the first branch
\* (lines 811-825) is the only one holding a call.
RECURSIVE removeComponentCalls(_, _)
removeComponentCalls(s, limit) ==
    IF limit = 0 THEN 0
    ELSE IF s.block = NULL
    THEN LET prevComponent == At(Components(s), Floor(s.position))
         IN IF IsLeaf(s.heap, prevComponent)
            THEN 1 + removeComponentCalls(removeComponentOntoLeaf(s, prevComponent),
                                          limit - 1)
            ELSE 0
    ELSE 0

\* Entering the component c from the left: its first block, before the
\* first child.  Reading c.blocks of a c that is no object throws after
\* this.component was assigned.
EnterFirst(s, c) ==
    IF ~IsComponent(s.heap, c) THEN Throw([s EXCEPT !.component = c])
    ELSE [s EXCEPT !.component = c, !.block = At(s.heap[c].blocks, 0), !.child = -1]

\* Entering the component c from the right: its last block, after the last
\* child.  Reading the children of a last block that is no Block throws
\* after this.component and this.block were assigned.
EnterLast(s, c) ==
    IF ~IsComponent(s.heap, c) THEN Throw([s EXCEPT !.component = c])
    ELSE LET b == At(s.heap[c].blocks, Len(s.heap[c].blocks) - 1)
         IN IF ~IsBlock(s.heap, b) THEN Throw([s EXCEPT !.component = c, !.block = b])
            ELSE [s EXCEPT !.component = c, !.block = b,
                           !.child = 2 * Len(s.heap[b].children) - 1]

\* A child element as the reference the cursor code reads: a string child
\* is no component (the cursor never stands in a block holding one).
ChildAt(h, b, i) ==
    IF i >= 0 /\ i < Len(h[b].children)
    THEN (IF IsString(h[b].children[i + 1]) THEN UNDEF ELSE h[b].children[i + 1].ref)
    ELSE UNDEF

\* Cursor.seekRight(), the branch at top level (lines 1045-1067).
seekRightTopLevel(s) ==
    LET p == s.position + 1
        c == At(Components(s), p \div 2)
    IN IF IsLeaf(s.heap, c)
       THEN [s EXCEPT !.position = p + 1, !.child = -1, !.block = NULL, !.component = NULL]
       ELSE EnterFirst([s EXCEPT !.position = p], c)

\* seekRightBlockEnd leaving a top-level component with position on it
\* (the statement this.position += 0.5 dropped).
seekRightBlockEndKeepsPosition(s) ==
    LET blocks == s.heap[s.component].blocks
        pos == IndexOf(blocks, s.block)
        up == s.heap[s.component].parent
    IN IF pos = Len(blocks) - 1
       THEN IF up = NULL
            THEN [s EXCEPT !.component = NULL, !.block = NULL, !.child = -1]
            ELSE IF ~IsBlock(s.heap, up) THEN Throw([s EXCEPT !.block = up])
            ELSE [s EXCEPT !.block = up,
                           !.child = 2 * IndexOf(s.heap[up].children, RefChild(s.component)) + 1,
                           !.component = s.heap[up].parent]
       ELSE LET b == At(blocks, pos + 1)
            IN [s EXCEPT !.block = b, !.child = -1]

\* seekRightBlockEnd leaving a nested component to the gap before it
\* (- 0.5 for + 0.5, as seekLeft does).
seekRightBlockEndBefore(s) ==
    LET blocks == s.heap[s.component].blocks
        pos == IndexOf(blocks, s.block)
        up == s.heap[s.component].parent
    IN IF pos = Len(blocks) - 1
       THEN IF up = NULL
            THEN [s EXCEPT !.component = NULL, !.block = NULL, !.child = -1,
                           !.position = @ + 1]
            ELSE IF ~IsBlock(s.heap, up) THEN Throw([s EXCEPT !.block = up])
            ELSE [s EXCEPT !.block = up,
                           !.child = 2 * IndexOf(s.heap[up].children, RefChild(s.component)) - 1,
                           !.component = s.heap[up].parent]
       ELSE LET b == At(blocks, pos + 1)
            IN [s EXCEPT !.block = b, !.child = -1]

\* Cursor.seekRight(), the cursor at the right end of its block
\* (lines 1069-1094).
seekRightBlockEnd(s) ==
    LET blocks == s.heap[s.component].blocks
        pos == IndexOf(blocks, s.block)
        up == s.heap[s.component].parent
    IN IF pos = Len(blocks) - 1
       THEN IF up = NULL
            THEN [s EXCEPT !.component = NULL, !.block = NULL, !.child = -1,
                           !.position = @ + 1]
            ELSE IF ~IsBlock(s.heap, up) THEN Throw([s EXCEPT !.block = up])
            ELSE [s EXCEPT !.block = up,
                           !.child = 2 * IndexOf(s.heap[up].children, RefChild(s.component)) + 1,
                           !.component = s.heap[up].parent]
       ELSE LET b == At(blocks, pos + 1)
            IN [s EXCEPT !.block = b, !.child = -1]

\* seekRightOverChild without the leaf test: every child is entered.
seekRightIntoChild(s) == EnterFirst(s, ChildAt(s.heap, s.block, Ceil(s.child)))

\* Cursor.seekRight(), the cursor before a child of its block
\* (lines 1095-1110).
seekRightOverChild(s) ==
    LET nextComponent == ChildAt(s.heap, s.block, Ceil(s.child))
    IN IF IsLeaf(s.heap, nextComponent)
       THEN [s EXCEPT !.child = @ + 2]
       ELSE EnterFirst(s, nextComponent)

\* seekRight clamping with > in place of >=.
seekRightPastEnd(s) ==
    LET maxPos == 2 * Len(Components(s)) - 1
    IN IF s.position > maxPos THEN s
       ELSE IF s.block = NULL THEN seekRightTopLevel(s)
       ELSE IF ~IsBlock(s.heap, s.block) THEN Throw(s)
       ELSE IF s.child = 2 * Len(s.heap[s.block].children) - 1
       THEN (IF ~IsComponent(s.heap, s.component) THEN Throw(s) ELSE seekRightBlockEnd(s))
       ELSE seekRightOverChild(s)

\* Cursor.seekRight()
seekRight(s) ==
    LET maxPos == 2 * Len(Components(s)) - 1
    IN IF s.position >= maxPos THEN s
       ELSE IF s.block = NULL THEN seekRightTopLevel(s)
       ELSE IF ~IsBlock(s.heap, s.block) THEN Throw(s)
       ELSE IF s.child = 2 * Len(s.heap[s.block].children) - 1
       THEN (IF ~IsComponent(s.heap, s.component) THEN Throw(s) ELSE seekRightBlockEnd(s))
       ELSE seekRightOverChild(s)

\* seekLeftTopLevel entering a container at its left edge, as seekRight
\* does.
seekLeftTopLevelEntersFirst(s) ==
    LET p == s.position - 1
        c == At(Components(s), p \div 2)
    IN IF IsLeaf(s.heap, c)
       THEN [s EXCEPT !.position = p - 1, !.child = -1, !.block = NULL, !.component = NULL]
       ELSE EnterFirst([s EXCEPT !.position = p], c)

\* Cursor.seekLeft(), the branch at top level (lines 1116-1139).
seekLeftTopLevel(s) ==
    LET p == s.position - 1
        c == At(Components(s), p \div 2)
    IN IF IsLeaf(s.heap, c)
       THEN [s EXCEPT !.position = p - 1, !.child = -1, !.block = NULL, !.component = NULL]
       ELSE EnterLast([s EXCEPT !.position = p], c)

\* Cursor.seekLeft(), the cursor at the left end of its block
\* (lines 1141-1166).
seekLeftBlockStart(s) ==
    LET blocks == s.heap[s.component].blocks
        pos == IndexOf(blocks, s.block)
        up == s.heap[s.component].parent
    IN IF pos = 0
       THEN IF up = NULL
            THEN [s EXCEPT !.component = NULL, !.block = NULL, !.child = -1,
                           !.position = @ - 1]
            ELSE IF ~IsBlock(s.heap, up) THEN Throw([s EXCEPT !.block = up])
            ELSE [s EXCEPT !.block = up,
                           !.child = 2 * IndexOf(s.heap[up].children, RefChild(s.component)) - 1,
                           !.component = s.heap[up].parent]
       ELSE LET b == At(blocks, pos - 1)
            IN IF ~IsBlock(s.heap, b) THEN Throw([s EXCEPT !.block = b])
               ELSE [s EXCEPT !.block = b, !.child = 2 * Len(s.heap[b].children) - 1]

\* Cursor.seekLeft(), the cursor after a child of its block
\* (lines 1167-1183).
\* seekLeftOverChild taking the leaf it steps over out of the block, as
\* backspace does (removeChild before the step).
seekLeftOverChildRemoving(s) ==
    LET prevComponent == ChildAt(s.heap, s.block, Floor(s.child))
    IN IF IsLeaf(s.heap, prevComponent)
       THEN [s EXCEPT !.heap = removeChild(@, s.block, Floor(s.child)),
                      !.child = @ - 2]
       ELSE EnterLast(s, prevComponent)

seekLeftOverChild(s) ==
    LET prevComponent == ChildAt(s.heap, s.block, Floor(s.child))
    IN IF IsLeaf(s.heap, prevComponent)
       THEN [s EXCEPT !.child = @ - 2]
       ELSE EnterLast(s, prevComponent)

\* Cursor.seekLeft()
seekLeft(s) ==
    IF s.position <= -1 THEN s
    ELSE IF s.block = NULL THEN seekLeftTopLevel(s)
    ELSE IF s.child = -1
    THEN (IF ~IsComponent(s.heap, s.component) THEN Throw(s) ELSE seekLeftBlockStart(s))
    ELSE IF ~IsBlock(s.heap, s.block) THEN Throw(s)
    ELSE seekLeftOverChild(s)

\* backspaceTopLevel entering the container at its left edge, as seekRight
\* does (blocks[0] and -0.5 for the last block and its length - 0.5).
backspaceTopLevelEntersFirst(s) ==
    LET prevComponent == At(Components(s), Floor(s.position))
    IN IF IsLeaf(s.heap, prevComponent)
       THEN removeComponent(s)
       ELSE LET t == EnterFirst(s, prevComponent)
            IN IF t.thrown THEN t ELSE [t EXCEPT !.position = 2 * Floor(s.position)]

\* Cursor.backspace(), the branch at top level (lines 1191-1207).
backspaceTopLevel(s) ==
    LET prevComponent == At(Components(s), Floor(s.position))
    IN IF IsLeaf(s.heap, prevComponent)
       THEN removeComponent(s)
       ELSE LET t == EnterLast(s, prevComponent)
            IN IF t.thrown THEN t ELSE [t EXCEPT !.position = 2 * Floor(s.position)]

\* backspaceInBlock stepping to the left end of the previous block
\* (-0.5 for its length - 0.5).
backspaceInBlockToBlockStart(s) ==
    IF s.child <= -1
    THEN LET blockPos == IndexOf(s.heap[s.component].blocks, s.block)
             b == At(s.heap[s.component].blocks, blockPos - 1)
         IN IF blockPos = 0 THEN s
            ELSE IF ~IsBlock(s.heap, b) THEN Throw([s EXCEPT !.block = b])
            ELSE [s EXCEPT !.block = b, !.child = -1]
    ELSE IF ~IsBlock(s.heap, s.block) THEN Throw(s)
    ELSE [s EXCEPT !.heap = removeChild(@, s.block, Floor(s.child)),
                   !.child = @ - 2]

\* backspaceInBlock removing the child right of the cursor (Math.ceil for
\* Math.floor).
backspaceInBlockForward(s) ==
    IF s.child <= -1
    THEN LET blockPos == IndexOf(s.heap[s.component].blocks, s.block)
             b == At(s.heap[s.component].blocks, blockPos - 1)
         IN IF blockPos = 0 THEN s
            ELSE IF ~IsBlock(s.heap, b) THEN Throw([s EXCEPT !.block = b])
            ELSE [s EXCEPT !.block = b, !.child = 2 * Len(s.heap[b].children) - 1]
    ELSE IF ~IsBlock(s.heap, s.block) THEN Throw(s)
    ELSE [s EXCEPT !.heap = removeChild(@, s.block, Ceil(s.child)),
                   !.child = @ - 2]

\* Cursor.backspace(), inside a component that is not empty
\* (lines 1212-1220).
backspaceInBlock(s) ==
    IF s.child <= -1
    THEN LET blockPos == IndexOf(s.heap[s.component].blocks, s.block)
             b == At(s.heap[s.component].blocks, blockPos - 1)
         IN IF blockPos = 0 THEN s
            ELSE IF ~IsBlock(s.heap, b) THEN Throw([s EXCEPT !.block = b])
            ELSE [s EXCEPT !.block = b, !.child = 2 * Len(s.heap[b].children) - 1]
    ELSE IF ~IsBlock(s.heap, s.block) THEN Throw(s)
    ELSE [s EXCEPT !.heap = removeChild(@, s.block, Floor(s.child)),
                   !.child = @ - 2]

\* backspace never removing the component the cursor is in (the isEmpty()
\* branch dropped).
backspaceKeepsEmpty(s) ==
    IF Len(Components(s)) = 0 THEN s
    ELSE IF s.position = -1 THEN s
    ELSE IF s.block = NULL THEN backspaceTopLevel(s)
    ELSE IF ~IsComponent(s.heap, s.component) THEN Throw(s)
    ELSE backspaceInBlock(s)

\* Cursor.backspace()
backspace(s) ==
    IF Len(Components(s)) = 0 THEN s
    ELSE IF s.position = -1 THEN s
    ELSE IF s.block = NULL THEN backspaceTopLevel(s)
    ELSE IF ~IsComponent(s.heap, s.component) THEN Throw(s)
    ELSE LET e == isEmpty(s.heap, s.component)
         IN IF e = "throw" THEN Throw(s)
            ELSE IF e = "true" THEN removeComponent(s)
            ELSE backspaceInBlock(s)

\* ----------------------------------------------------------- caret markup
\* A call node.toLatex() on a Block or a Component in s: what the call
\* returns and the objects after it (no toLatex assigns to a field or
\* splices an array, lines 146-162 and each class's toLatex).
toLatexCall(s, id) == [after |-> s, returned |-> toLatex(s.heap, id)]

\* Expression.toLatex taking each component out of the array as it renders
\* it (shift() for the for...of loop).
ExpressionToLatexCallShifting(s) ==
    [after |-> [s EXCEPT !.exprs[s.expression] = <<>>],
     returned |-> ExpressionToLatex(s.heap, Components(s))]

\* The call this.expression.toLatex() (lines 118-125): the loop reads the
\* components and assigns only to its local string.
ExpressionToLatexCall(s) ==
    [after |-> s, returned |-> ExpressionToLatex(s.heap, Components(s))]

\* Cursor.toLatex rendering the block the cursor is in
\* (this.block.toLatex() for this.expression.toLatex()).
CursorToLatexOfBlock(s) ==
    [s EXCEPT !.latex = IF s.block = NULL THEN ExpressionToLatex(s.heap, Components(s))
                        ELSE toLatex(s.heap, s.block)]

\* Cursor.toLatex(): let latex = this.expression.toLatex();
\* this.latex = latex; return latex.  The string returned is the latex
\* field of the result.
CursorToLatex(s) ==
    LET call == ExpressionToLatexCall(s)
    IN [call.after EXCEPT !.latex = call.returned]

\* The objects toDisplayLatex constructs (lines 1236-1239): the caret and
\* its Block, the frame and its Block.
CaretIds(s) == Fresh(s.heap, ScratchNodes)
CaretOf(s) == CaretIds(s)[1]
FrameOf(s) == CaretIds(s)[3]

\* Decorate putting the frame before the cursor's block and leaving the
\* block in the component's blocks (this.component.removeBlock(i) dropped).
DecorateKeepsBlock(s) ==
    LET ids == CaretIds(s)
        caret == ids[1]
        frame == ids[3]
        h1 == Construct(s.heap, <<ids[1], ids[2]>>, "TextComponent", s.block, "", "null")
        h2 == addChild(h1, ids[2], StrChild("|"), Len(h1[ids[2]].children))
        h3 == Construct(h2, <<ids[3], ids[4]>>, "FrameBox", s.block, "", "null")
    IN IF s.block = NULL
       THEN [s EXCEPT !.heap = h3,
                      !.exprs[s.expression] = ExpressionAdd(@, caret, Ceil(s.position))]
       ELSE IF ~IsComponent(h3, s.component) THEN Throw([s EXCEPT !.heap = h3])
       ELSE LET i == IndexOf(h3[s.component].blocks, s.block)
                h5 == addBlock(h3, s.component, frame, i)
                h6 == [h5 EXCEPT ![frame].blocks[1] = s.block]
            IN IF ~IsBlock(h6, s.block) THEN Throw([s EXCEPT !.heap = h6])
               ELSE [s EXCEPT !.heap = addChild(h6, s.block, RefChild(caret), Ceil(s.child))]

\* Decorate putting the caret left of the element before the cursor
\* (Math.floor for Math.ceil).
DecorateCaretAtFloor(s) ==
    LET ids == CaretIds(s)
        caret == ids[1]
        frame == ids[3]
        h1 == Construct(s.heap, <<ids[1], ids[2]>>, "TextComponent", s.block, "", "null")
        h2 == addChild(h1, ids[2], StrChild("|"), Len(h1[ids[2]].children))
        h3 == Construct(h2, <<ids[3], ids[4]>>, "FrameBox", s.block, "", "null")
    IN IF s.block = NULL
       THEN [s EXCEPT !.heap = h3,
                      !.exprs[s.expression] = ExpressionAdd(@, caret, Floor(s.position))]
       ELSE IF ~IsComponent(h3, s.component) THEN Throw([s EXCEPT !.heap = h3])
       ELSE LET i == IndexOf(h3[s.component].blocks, s.block)
                h4 == removeBlock(h3, s.component, i)
                h5 == addBlock(h4, s.component, frame, i)
                h6 == [h5 EXCEPT ![frame].blocks[1] = s.block]
            IN IF ~IsBlock(h6, s.block) THEN Throw([s EXCEPT !.heap = h6])
               ELSE [s EXCEPT !.heap = addChild(h6, s.block, RefChild(caret), Floor(s.child))]

\* Lines 1236-1255 of toDisplayLatex: the caret and the frame are built
\* and spliced into the tree.
Decorate(s) ==
    LET ids == CaretIds(s)
        caret == ids[1]
        frame == ids[3]
        h1 == Construct(s.heap, <<ids[1], ids[2]>>, "TextComponent", s.block, "", "null")
        h2 == addChild(h1, ids[2], StrChild("|"), Len(h1[ids[2]].children))
        h3 == Construct(h2, <<ids[3], ids[4]>>, "FrameBox", s.block, "", "null")
    IN IF s.block = NULL
       THEN [s EXCEPT !.heap = h3,
                      !.exprs[s.expression] = ExpressionAdd(@, caret, Ceil(s.position))]
       ELSE IF ~IsComponent(h3, s.component) THEN Throw([s EXCEPT !.heap = h3])
       ELSE LET i == IndexOf(h3[s.component].blocks, s.block)
                h4 == removeBlock(h3, s.component, i)
                h5 == addBlock(h4, s.component, frame, i)
                h6 == [h5 EXCEPT ![frame].blocks[1] = s.block]
            IN IF ~IsBlock(h6, s.block) THEN Throw([s EXCEPT !.heap = h6])
               ELSE [s EXCEPT !.heap = addChild(h6, s.block, RefChild(caret), Ceil(s.child))]

\* Undecorate leaving the caret in the tree (the removal of the caret
\* dropped).
UndecorateKeepsCaret(s, frame) ==
    IF s.block = NULL THEN s
    ELSE LET i == IndexOf(s.heap[s.component].blocks, frame)
             h1 == removeBlock(s.heap, s.component, i)
         IN [s EXCEPT !.heap = addBlock(h1, s.component, s.block, i)]

\* Undecorate stepping the address back past the caret it removed, as
\* backspace does for a removed child.
UndecorateStepsBack(s, frame) ==
    IF s.block = NULL
    THEN [s EXCEPT !.exprs[s.expression] = ExpressionRemove(@, Ceil(s.position)),
                   !.position = @ - 2]
    ELSE LET i == IndexOf(s.heap[s.component].blocks, frame)
             h1 == removeBlock(s.heap, s.component, i)
             h2 == addBlock(h1, s.component, s.block, i)
         IN [s EXCEPT !.heap = removeChild(h2, s.block, Ceil(s.child)),
                      !.child = @ - 2]

\* Lines 1259-1266 of toDisplayLatex: the caret and the frame are taken out.
Undecorate(s, frame) ==
    IF s.block = NULL
    THEN [s EXCEPT !.exprs[s.expression] = ExpressionRemove(@, Ceil(s.position))]
    ELSE LET i == IndexOf(s.heap[s.component].blocks, frame)
             h1 == removeBlock(s.heap, s.component, i)
             h2 == addBlock(h1, s.component, s.block, i)
         IN [s EXCEPT !.heap = removeChild(h2, s.block, Ceil(s.child))]

\* Cursor.toDisplayLatex(); the string it returns is the latex field of the
\* result (toLatex stores what it returns).
toDisplayLatex(s) ==
    LET d == Decorate(s)
    IN IF d.thrown THEN d ELSE Undecorate(CursorToLatex(d), FrameOf(s))

\* updateDisplay handing over the markup without the caret (toLatex() for
\* toDisplayLatex()).
updateDisplayWithoutCaret(s) ==
    LET t == CursorToLatex(s)
    IN [t EXCEPT !.display = <<"$$">> \o t.latex \o <<"$$">>, !.renders = @ + 1]

\* Cursor.updateDisplay(): display.innerHTML = '$$' + toDisplayLatex() + '$$';
\* s.renders counts the strings handed to the display element since the
\* running handler began.
updateDisplay(s) ==
    LET t == toDisplayLatex(s)
    IN IF t.thrown THEN t
       ELSE [t EXCEPT !.display = <<"$$">> \o t.latex \o <<"$$">>, !.renders = @ + 1]

\* ------------------------------------------------------- unreachable nodes
\* Objects no reference reaches are gone for the program: the caret and the
\* frame after toDisplayLatex, a removed component and what it held.
Refs(h, id) ==
    {h[id].blocks[i] : i \in 1..Len(h[id].blocks)}
        \cup {h[id].children[i].ref : i \in 1..Len(h[id].children)}
        \cup {h[id].parent}

RECURSIVE Reach(_, _)
Reach(h, S) ==
    LET T == S \cup {r \in UNION {Refs(h, id) : id \in S} : IsNode(h, r)}
    IN IF T = S THEN S ELSE Reach(h, T)

Roots(s) ==
    {r \in UNION {{s.exprs[e][i] : i \in 1..Len(s.exprs[e])} : e \in 1..Len(s.exprs)}
            \cup {s.component, s.block} : IsNode(s.heap, r)}

\* The live nodes in the order a walk of the expressions meets them
\* (component, its blocks, their children), then any other live node.
RECURSIVE Walk(_, _)
RECURSIVE WalkAll(_, _)
Walk(h, id) ==
    IF ~IsNode(h, id) THEN <<>>
    ELSE <<id>> \o WalkAll(h, h[id].blocks)
              \o WalkAll(h, [i \in 1..Len(h[id].children) |-> h[id].children[i].ref])
WalkAll(h, ids) ==
    IF ids = <<>> THEN <<>> ELSE Walk(h, Head(ids)) \o WalkAll(h, Tail(ids))

RECURSIVE Distinct(_, _)
Distinct(seq, seen) ==
    IF seq = <<>> THEN <<>>
    ELSE IF Head(seq) \in seen THEN Distinct(Tail(seq), seen)
    ELSE <<Head(seq)>> \o Distinct(Tail(seq), seen \cup {Head(seq)})

RECURSIVE Ascending(_)
Ascending(S) ==
    IF S = {} THEN <<>>
    ELSE LET m == CHOOSE x \in S : \A y \in S : x <= y
         IN <<m>> \o Ascending(S \ {m})

RECURSIVE Flatten(_)
Flatten(seqs) == IF seqs = <<>> THEN <<>> ELSE Head(seqs) \o Flatten(Tail(seqs))

LiveOrder(s) ==
    LET live == Reach(s.heap, Roots(s))
        walked == Distinct(WalkAll(s.heap, Flatten(s.exprs)), {})
        rest == live \ {walked[i] : i \in 1..Len(walked)}
    IN walked \o Ascending(rest)

\* What the program keeps after a handler: the live objects.  An object's
\* identifier is only its identity, which the program cannot observe, so
\* the live objects are renumbered in LiveOrder and the others are free.
Collect(s) ==
    LET order == LiveOrder(s)
        To(r) == IF r \in NodeIds /\ IndexOf(order, r) >= 0 THEN IndexOf(order, r) + 1 ELSE r
        Move(n) == [n EXCEPT !.blocks = [i \in 1..Len(n.blocks) |-> To(n.blocks[i])],
                             !.children = [i \in 1..Len(n.children) |->
                                              [n.children[i] EXCEPT !.ref = To(@)]],
                             !.parent = To(n.parent)]
    IN [s EXCEPT !.heap = [id \in NodeIds |->
                              IF id <= Len(order) THEN Move(s.heap[order[id]]) ELSE FreeNode],
                 !.exprs = [e \in 1..Len(s.exprs) |->
                              [i \in 1..Len(s.exprs[e]) |-> To(s.exprs[e][i])]],
                 !.component = To(s.component),
                 !.block = To(s.block)]

\* ----------------------------------------------------------------- events
\* The components the key map and the palette build: [kind, latexData].
LongRightArrow == [kind |-> "MJXGUISymbol", latexData |-> "\\longrightarrow"]
PaletteSymbols == {LongRightArrow}
Fraction == [kind |-> "TemplateTwoBlockContinuousComponent", latexData |-> "dfrac"]
SquareRoot == [kind |-> "Sqrt", latexData |-> ""]
PaletteFunctions == {SquareRoot, Fraction}

\* let _ = new <class>(parent, latexData); this.cursor.addComponent(_)
InsertNew(s, cls, parent, color) ==
    LET ids == Fresh(s.heap, 1 + Arity(cls.kind))
        h == Construct(s.heap, ids, cls.kind, parent, cls.latexData, color)
    IN addComponent([s EXCEPT !.heap = h], ids[1])

\* The data-latex-data of the palette's matrix buttons, "<rows>x<cols>",
\* character by character.
PaletteMatrices == {<<"1", "x", "2">>, <<"2", "x", "1">>, <<"2", "x", "2">>}

\* _ = new MatrixComponent(this.cursor.block, func.dataset.latexData);
\* this.cursor.addComponent(_)
InsertMatrix(s, latexData, parent, color) ==
    LET ids == Fresh(s.heap, 1 + MatrixRows(latexData) * MatrixCols(latexData))
        h == ConstructMatrix(s.heap, ids, parent, latexData, color)
    IN addComponent([s EXCEPT !.heap = h], ids[1])

\* The operation Cursor.keyPress selects for the key (lines 857-1038).
KeyOperation(s, key, color) ==
    CASE key \in Characters -> addText(s, key)
      [] key = "ArrowLeft" -> seekLeft(s)
      [] key = "ArrowRight" -> seekRight(s)
      [] key = "Backspace" -> backspace(s)
      [] key = "ctrl+a" -> InsertNew(s, LongRightArrow, s.block, color)
      [] key = "ctrl+f" -> InsertNew(s, Fraction, s.block, color)
      [] OTHER -> s

Keys == Characters \cup {"ArrowLeft", "ArrowRight", "Backspace", "ctrl+a", "ctrl+f", "Shift"}

\* Objects the key's operation constructs.
KeyAllocates(key) ==
    CASE key \in Characters -> 2
      [] key = "ctrl+a" -> 1
      [] key = "ctrl+f" -> 3
      [] OTHER -> 0

\* A handler runs an operation and then this.cursor.updateDisplay(); an
\* uncaught TypeError ends the handler where it is thrown.
ThenUpdateDisplay(t) == Collect(IF t.thrown THEN t ELSE updateDisplay(t))

\* Cursor.keyPress(event, lastKey)
keyPress(s, key, color) == ThenUpdateDisplay(KeyOperation(s, key, color))

\* clearEquation pushing after it replaced this.expression: the history
\* gets the new Expression.
clearEquationPushesNew(s) ==
    LET t == [s EXCEPT !.eqnHistory = Append(@, Len(s.exprs) + 1),
                       !.exprs = Append(@, <<>>),
                       !.hostExpression = Len(s.exprs) + 1,
                       !.expression = Len(s.exprs) + 1,
                       !.block = NULL,
                       !.component = NULL,
                       !.child = -1,
                       !.position = -1,
                       !.latex = <<>>]
    IN ThenUpdateDisplay(t)

\* MJXGUI.clearEquation()
clearEquation(s) ==
    LET t == [s EXCEPT !.eqnHistory = Append(@, s.hostExpression),
                       !.exprs = Append(@, <<>>),
                       !.hostExpression = Len(s.exprs) + 1,
                       !.expression = Len(s.exprs) + 1,
                       !.block = NULL,
                       !.component = NULL,
                       !.child = -1,
                       !.position = -1,
                       !.latex = <<>>]
    IN ThenUpdateDisplay(t)

\* ------------------------------------------------------------------ state
VARIABLES heap, exprs, hostExpression, eqnHistory, expression, block, component,
          child, position, latex, display, thrown, renders

vars == <<heap, exprs, hostExpression, eqnHistory, expression, block, component,
          child, position, latex, display, thrown, renders>>

\* The program's state as one value.
Now ==
    [heap |-> heap, exprs |-> exprs, hostExpression |-> hostExpression,
     eqnHistory |-> eqnHistory, expression |-> expression, block |-> block,
     component |-> component, child |-> child, position |-> position,
     latex |-> latex, display |-> display, thrown |-> thrown, renders |-> renders]

\* A handler starts with no error pending and nothing rendered yet.
Start == [Now EXCEPT !.thrown = FALSE, !.renders = 0]

Becomes(result) ==
    \E t \in {result} :
        /\ heap' = t.heap
        /\ exprs' = t.exprs
        /\ hostExpression' = t.hostExpression
        /\ eqnHistory' = t.eqnHistory
        /\ expression' = t.expression
        /\ block' = t.block
        /\ component' = t.component
        /\ child' = t.child
        /\ position' = t.position
        /\ latex' = t.latex
        /\ display' = t.display
        /\ thrown' = t.thrown
        /\ renders' = t.renders

\* Room for n new tree nodes besides the caret and the frame.
Room(n) ==
    /\ Cardinality(FreeIds(heap)) >= n + ScratchNodes
    /\ Cardinality(NodeIds \ FreeIds(heap)) + n <= MaxNodes

\* MJXGUI constructor and Cursor constructor.
Init ==
    /\ heap = [id \in NodeIds |-> FreeNode]
    /\ exprs = <<(<<>>)>>
    /\ hostExpression = 1
    /\ eqnHistory = <<>>
    /\ expression = 1
    /\ block = NULL
    /\ component = NULL
    /\ child = -1
    /\ position = -1
    /\ latex = <<>>
    /\ display = <<"$$", " ", "|", " ", "$$">>
    /\ thrown = FALSE
    /\ renders = 0

\* document keydown listener
KeyDown ==
    \E key \in Keys, color \in ColorSet :
        /\ Room(KeyAllocates(key))
        /\ Becomes(keyPress(Start, key, color))

\* keydown of one of the keys of every kind: a character, the arrows,
\* Backspace, the two shortcuts, a key keyPress has no branch for
EditKeys == {"a", "ArrowLeft", "ArrowRight", "Backspace", "ctrl+a", "ctrl+f", "Shift"}

EditKeyDown ==
    \E key \in EditKeys, color \in ColorSet :
        /\ Room(KeyAllocates(key))
        /\ Becomes(keyPress(Start, key, color))

\* keydown of one of a few keys: a character, the left arrow, Backspace
CommitKeys == {"a", "ArrowLeft", "Backspace"}

CommitKeyDown ==
    \E key \in CommitKeys, color \in ColorSet :
        /\ Room(KeyAllocates(key))
        /\ Becomes(keyPress(Start, key, color))

\* click on a palette symbol
SymbolClick ==
    \E sym \in PaletteSymbols :
        /\ Room(1)
        /\ Becomes(ThenUpdateDisplay(InsertNew(Start, sym, block, "null")))

\* click on a palette function
FunctionClick ==
    \E func \in PaletteFunctions, color \in ColorSet :
        /\ Room(1 + Arity(func.kind))
        /\ Becomes(ThenUpdateDisplay(InsertNew(Start, func, block, color)))

\* click on a button added by registerFunction(componentClass, ...):
\* this.cursor.addComponent(new componentClass()), no parent argument, so
\* the new component's parent is null wherever the cursor is.
RegisteredFunctionClick ==
    \E color \in ColorSet :
        /\ Room(1 + Arity(SquareRoot.kind))
        /\ Becomes(ThenUpdateDisplay(InsertNew(Start, SquareRoot, UNDEF, color)))

\* click on a palette function whose template type is 'matrix'
MatrixClick ==
    \E func \in PaletteMatrices, color \in ColorSet :
        /\ Room(1 + MatrixRows(func) * MatrixCols(func))
        /\ Becomes(ThenUpdateDisplay(InsertMatrix(Start, func, block, color)))

\* click on the left arrow button
LeftArrowClick == Becomes(ThenUpdateDisplay(seekLeft(Start)))

\* click on the right arrow button
RightArrowClick == Becomes(ThenUpdateDisplay(seekRight(Start)))

\* click on the clear button
ClearClick ==
    /\ Len(eqnHistory) < MaxHistory
    /\ Becomes(clearEquation(Start))

Next ==
    \/ EditKeyDown
    \/ SymbolClick
    \/ FunctionClick
    \/ RegisteredFunctionClick
    \/ LeftArrowClick
    \/ RightArrowClick

\* One expression being edited.
Spec == Init /\ [][Next]_vars

\* Editing with the keyboard, the arrow buttons and the matrix buttons.
NextMatrix ==
    \/ EditKeyDown
    \/ MatrixClick
    \/ LeftArrowClick
    \/ RightArrowClick

SpecMatrix == Init /\ [][NextMatrix]_vars

\* Editing with the keyboard, the arrow buttons, the matrix buttons and a
\* button added by registerFunction.
NextCursor ==
    \/ EditKeyDown
    \/ MatrixClick
    \/ RegisteredFunctionClick
    \/ LeftArrowClick
    \/ RightArrowClick

SpecCursor == Init /\ [][NextCursor]_vars

\* Editing with a few keys and the palette, and committing with the clear
\* button.
NextCommit ==
    \/ CommitKeyDown
    \/ SymbolClick
    \/ FunctionClick
    \/ ClearClick

SpecCommit == Init /\ [][NextCommit]_vars

\* Typing: the keyboard alone, every key.
SpecTyping == Init /\ [][KeyDown]_vars

\* Editing with the keyboard and a function added by registerFunction.
NextEdit ==
    \/ EditKeyDown
    \/ RegisteredFunctionClick

SpecEdit == Init /\ [][NextEdit]_vars

\* Spec with the clear button: expressions are committed to the history.
SpecClear == Init /\ [][Next \/ ClearClick]_vars

\* ------------------------------------------------------------- properties
\* The components of the expression being edited, at any depth.
TreeNodes(s) ==
    LET w == WalkAll(s.heap, Components(s)) IN {w[i] : i \in 1..Len(w)}
TreeComponents(s) == {id \in TreeNodes(s) : IsComponent(s.heap, id)}

\* The cursor's address.
Address(s) == <<s.component, s.block, s.position, s.child>>

\* The tree of s as the tree of Now: the same expression, and every node
\* of Now unchanged.
SameTree(s) ==
    /\ s.exprs = exprs
    /\ \A id \in NodeIds : IsNode(heap, id) => s.heap[id] = heap[id]

AtTopLevel == block = NULL /\ component = NULL
AtStart == block = NULL /\ position = -1
AtEnd == block = NULL /\ position = 2 * Len(exprs[expression]) - 1

RECURSIVE backspaceTimes(_, _)
backspaceTimes(s, n) == IF n = 0 THEN s ELSE backspaceTimes(backspace(s), n - 1)

\* The state N leaf insertions from the empty expression leave: N leaves
\* at top level, the cursor after the last.
OnlyLeavesInserted ==
    /\ AtTopLevel
    /\ AtEnd
    /\ \A i \in 1..Len(exprs[expression]) : IsLeaf(heap, exprs[expression][i])

\* C1: after N leaves were inserted into the empty expression, N calls of
\* backspace leave no component, the cursor at top level at -0.5.
C1_RoundTrip ==
    OnlyLeavesInserted =>
        LET t == backspaceTimes(Start, Len(exprs[expression]))
        IN /\ Len(Components(t)) = 0
           /\ t.block = NULL
           /\ t.component = NULL
           /\ t.position = -1
           /\ ~t.thrown

C1_Witness ==
    /\ OnlyLeavesInserted
    /\ Len(exprs[expression]) >= 3
    /\ \E i \in 1..Len(exprs[expression]) : heap[exprs[expression][i]].kind = "TextComponent"
    /\ \E i \in 1..Len(exprs[expression]) : heap[exprs[expression][i]].kind = "MJXGUISymbol"

\* C2: away from the two ends of the document, seekRight then seekLeft, and
\* seekLeft then seekRight, bring the cursor back to the address it had.
C2_NavigationSymmetry ==
    ~(AtStart \/ AtEnd) =>
        /\ Address(seekLeft(seekRight(Start))) = Address(Now)
        /\ ~seekLeft(seekRight(Start)).thrown
        /\ Address(seekRight(seekLeft(Start))) = Address(Now)
        /\ ~seekRight(seekLeft(Start)).thrown

\* C3: when toDisplayLatex returns, the tree is what it was before the
\* call: the components, every blocks array, every children array, every
\* parent, and so the markup of toLatex.
C3_CaretAtomicity ==
    LET t == toDisplayLatex(Start)
    IN ~t.thrown =>
        /\ SameTree(t)
        /\ ExpressionToLatex(t.heap, Components(t)) = ExpressionToLatex(heap, exprs[expression])

C3_Witness ==
    /\ IsBlock(heap, block)
    /\ IsComponent(heap, component)
    /\ IsBlock(heap, heap[component].parent)
    /\ Len(heap[block].children) > 0
    /\ Len(heap[component].blocks) = 2
    /\ ~toDisplayLatex(Start).thrown

\* C4: when toDisplayLatex returns, the cursor's expression, component,
\* block, position and child are what they were before the call.
C4_CaretKeepsAddress ==
    LET t == toDisplayLatex(Start)
    IN ~t.thrown => t.expression = expression /\ Address(t) = Address(Now)

C4_Witness ==
    /\ IsBlock(heap, block)
    /\ child > -1
    /\ child < 2 * Len(heap[block].children) - 1
    /\ ~toDisplayLatex(Start).thrown

\* The results of the calls the editor makes in Now: the insertions (by
\* key, palette and registered function), the seeks and backspace, and
\* the caret markup made in Now and after each of them.
Edits ==
    {addText(Start, "a"), seekLeft(Start), seekRight(Start), backspace(Start)}
        \cup {InsertNew(Start, cls, block, "red") :
                    cls \in {LongRightArrow, SquareRoot, Fraction}}
        \cup {InsertNew(Start, SquareRoot, UNDEF, "red")}
Calls == Edits \cup {toDisplayLatex(e) : e \in {Start} \cup {e \in Edits : ~e.thrown}}

Removed(t) == TreeComponents(Now) \ TreeComponents(t)

\* C6: one backspace removes nothing, or one leaf, or one container whose
\* blocks are all empty.
C6_BackspaceRemovesLeafOrEmpty ==
    LET t == backspace(Start)
    IN ~t.thrown =>
        \/ Removed(t) = {}
        \/ \E c \in TreeComponents(Now) :
              /\ Removed(t) = {c}
              /\ (IsLeaf(heap, c) \/ isEmpty(heap, c) = "true")

\* C7: at the ends of the document seekRight, seekLeft and backspace change
\* nothing and throw nothing.
C7_Saturation ==
    /\ (AtTopLevel /\ AtEnd) => seekRight(Start) = Start
    /\ (AtTopLevel /\ AtStart) => seekLeft(Start) = Start /\ backspace(Start) = Start
    /\ Len(exprs[expression]) = 0 => backspace(Start) = Start

C7_Witness ==
    /\ AtTopLevel
    /\ AtEnd
    /\ Len(exprs[expression]) >= 2
    /\ ~IsLeaf(heap, exprs[expression][Len(exprs[expression])])

C9_ParentPointers ==
    /\ \A i \in 1..Len(exprs[expression]) : heap[exprs[expression][i]].parent = NULL
    /\ \A c \in TreeComponents(Now) :
          \A i \in 1..Len(heap[c].blocks) :
              LET b == heap[c].blocks[i]
              IN IsBlock(heap, b) =>
                    /\ heap[b].parent = c
                    /\ \A k \in 1..Len(heap[b].children) :
                          IsString(heap[b].children[k])
                          \/ heap[heap[b].children[k].ref].parent = b

\* The cursor is in no leaf.
InNoLeaf(s) ==
    /\ s.component = NULL \/ (IsComponent(s.heap, s.component) /\ ~IsLeaf(s.heap, s.component))
    /\ IsBlock(s.heap, s.block) => ~IsLeaf(s.heap, s.heap[s.block].parent)

\* The edits of Now that return.
Completed == {t \in Edits : ~t.thrown}

\* C10: after every completed insertion, seek and backspace the cursor's
\* component is null or no leaf, and its block is no leaf's block.
C10_LeavesNeverEntered ==
    /\ ~thrown => InNoLeaf(Now)
    /\ \A t \in Completed : InNoLeaf(t)

C10_Witness ==
    /\ IsBlock(heap, block)
    /\ child < 2 * Len(heap[block].children) - 1
    /\ IsLeaf(heap, ChildAt(heap, block, Ceil(child)))
    /\ child > -1
    /\ IsLeaf(heap, ChildAt(heap, block, Floor(child)))

\* ------------------------------------------------------ claims C11 - C20
\* A doubled address that stands for a half-integer (a gap), and one that
\* stands for an integer (on an element).
IsGap(x2) == x2 % 2 = 1
OnElement(x2) == x2 % 2 = 0

\* C11: after every completed cursor operation position and child both
\* hold half-integers.
C11_HalfIntegerAddresses ==
    /\ IsGap(position) /\ IsGap(child)
    /\ \A t \in Completed : IsGap(t.position) /\ IsGap(t.child)

\* The resting addresses of s: child in a gap; position in a gap at top
\* level, and on a top-level component while the cursor is in a block.
RestingAddress(s) ==
    /\ IsGap(s.child)
    /\ s.block = NULL => IsGap(s.position)
    /\ s.block # NULL =>
            /\ OnElement(s.position)
            /\ s.position \div 2 \in 0..(Len(Components(s)) - 1)

\* C11 amended: after every completed cursor operation child holds a
\* half-integer; position holds a half-integer when the cursor is at top
\* level and the integer index of a top-level component while the cursor
\* is in a block.
C11_RestingAddresses ==
    /\ RestingAddress(Now)
    /\ \A t \in Completed : RestingAddress(t)

\* C11 witness: the cursor rests in a block of the second top-level
\* component, between two children, position on that component.
C11_Witness ==
    /\ IsBlock(heap, block)
    /\ position = 2
    /\ child > -1
    /\ child < 2 * Len(heap[block].children) - 1

\* seq with x put in as element k (0-based), the others in their order.
InsertedAt(old, new, k, x) ==
    /\ k \in 0..Len(old)
    /\ Len(new) = Len(old) + 1
    /\ new[k + 1] = x
    /\ \A i \in 1..Len(old) : new[IF i <= k THEN i ELSE i + 1] = old[i]

\* Every node of Now but those in Except is in s what it is in Now.
NodesKept(s, Except) ==
    \A id \in NodeIds : (IsNode(heap, id) /\ id \notin Except) => s.heap[id] = heap[id]

\* c is in s a Text leaf, new in s, holding the one string ch, its parent
\* the cursor's block.
NewTextLeaf(s, c, ch) ==
    /\ ~IsNode(heap, c)
    /\ IsComponent(s.heap, c)
    /\ s.heap[c].kind = "TextComponent"
    /\ s.heap[c].parent = block
    /\ Len(s.heap[c].blocks) = 1
    /\ IsBlock(s.heap, s.heap[c].blocks[1])
    /\ ~IsNode(heap, s.heap[c].blocks[1])
    /\ s.heap[s.heap[c].blocks[1]].parent = c
    /\ s.heap[s.heap[c].blocks[1]].children = <<StrChild(ch)>>

\* C12: addText(ch) puts one new Text leaf holding ch at index
\* ceil(position) of the top-level sequence (block = null) or ceil(child)
\* of the cursor's block, moves that address by 1, leaves component and
\* block as they were, and leaves every other element in its order.
C12_InsertText ==
    \A ch \in Characters :
        LET t == addText(Start, ch)
        IN /\ ~t.thrown
           /\ t.component = component
           /\ t.block = block
           /\ IF block = NULL
              THEN /\ \E c \in NodeIds :
                        /\ NewTextLeaf(t, c, ch)
                        /\ InsertedAt(exprs[expression], Components(t), Ceil(position), c)
                  /\ t.position = position + 2
                  /\ NodesKept(t, {})
              ELSE /\ \E c \in NodeIds :
                        /\ NewTextLeaf(t, c, ch)
                        /\ InsertedAt(heap[block].children, t.heap[block].children,
                                      Ceil(child), RefChild(c))
                  /\ t.child = child + 2
                  /\ t.position = position
                  /\ t.exprs = exprs
                  /\ NodesKept(t, {block})

\* C12 witness: the cursor is in a nested block after its first child,
\* with a child to its right.
C12_Witness ==
    /\ IsBlock(heap, block)
    /\ IsComponent(heap, component)
    /\ IsBlock(heap, heap[component].parent)
    /\ child = 1
    /\ Len(heap[block].children) >= 2

\* The classes whose instances the handlers, or a caller of
\* addComponent, insert: two leaves and two containers.
TextLeaf == [kind |-> "TextComponent", latexData |-> ""]
InsertedClasses == {LongRightArrow, TextLeaf, SquareRoot, Fraction}

\* C13: addComponent(node) puts node at index ceil(position) of the
\* top-level sequence (block = null) or ceil(child) of the cursor's block;
\* a container is entered (component = node, block = node.blocks[0],
\* child = -0.5); past a Symbol or Text the address moves by 1 and
\* component and block stay.
C13_InsertComponent ==
    \A cls \in InsertedClasses :
        LET t == InsertNew(Start, cls, block, "red")
        IN /\ ~t.thrown
           /\ \E c \in NodeIds :
                /\ ~IsNode(heap, c)
                /\ IsComponent(t.heap, c)
                /\ t.heap[c].kind = cls.kind
                /\ IF block = NULL
                   THEN /\ InsertedAt(exprs[expression], Components(t), Ceil(position), c)
                        /\ NodesKept(t, {})
                   ELSE /\ InsertedAt(heap[block].children, t.heap[block].children,
                                      Ceil(child), RefChild(c))
                        /\ t.exprs = exprs
                        /\ NodesKept(t, {block})
                /\ IF IsLeaf(t.heap, c)
                   THEN /\ t.component = component
                        /\ t.block = block
                        /\ IF block = NULL
                           THEN t.position = position + 2
                           ELSE t.child = child + 2 /\ t.position = position
                   ELSE /\ t.component = c
                        /\ t.block = t.heap[c].blocks[1]
                        /\ t.child = -1

\* C13 witness: the cursor is at top level between two components, a
\* container on one side.
C13_Witness ==
    /\ block = NULL
    /\ position >= 1
    /\ position < 2 * Len(exprs[expression]) - 1
    /\ \E i \in {Floor(position), Ceil(position)} : ~IsLeaf(heap, exprs[expression][i + 1])

\* C14: seekLeft and seekRight leave the tree as it is: the components,
\* every blocks array, every children array and every parent; of the
\* cursor only component, block, position and child may change.
C14_SeekKeepsTree ==
    \A t \in {seekLeft(Start), seekRight(Start)} :
        /\ SameTree(t)
        /\ t.heap = heap
        /\ t.expression = expression
        /\ t.hostExpression = hostExpression
        /\ t.eqnHistory = eqnHistory
        /\ t.latex = latex
        /\ t.display = display

\* C14 witness: the cursor is in a block with a leaf on its left and a
\* container on its right, so seekLeft steps over and seekRight enters.
C14_Witness ==
    /\ IsBlock(heap, block)
    /\ child > -1
    /\ child < 2 * Len(heap[block].children) - 1
    /\ IsLeaf(heap, ChildAt(heap, block, Floor(child)))
    /\ ~IsLeaf(heap, ChildAt(heap, block, Ceil(child)))

\* The empty expression with the cursor at top level at -0.5.
EmptyExpression ==
    /\ Len(exprs[expression]) = 0
    /\ block = NULL
    /\ component = NULL
    /\ position = -1

\* addText('a'), addText('b'), addText('c') called on Now.
InsertedABC == addText(addText(addText(Start, "a"), "b"), "c")

\* The top-level sequence of Now is Text leaves holding the strings of
\* texts, one each, in that order.
TopLevelTexts(texts) ==
    /\ Len(exprs[expression]) = Len(texts)
    /\ \A i \in 1..Len(texts) :
            LET c == exprs[expression][i]
            IN /\ heap[c].kind = "TextComponent"
               /\ heap[heap[c].blocks[1]].children = <<StrChild(texts[i])>>

\* C15: from the empty expression, after addText('a'), addText('b'),
\* addText('c') toLatex() returns "abc" and the cursor is at top level with
\* position 2.5.
C15_ScenarioABC ==
    EmptyExpression =>
        LET t == CursorToLatex(InsertedABC)
        IN /\ ~t.thrown
           /\ t.latex = <<"a", "b", "c">>
           /\ t.block = NULL
           /\ t.component = NULL
           /\ t.position = 5

\* C15 witness: the keys a, b, c were typed into the empty expression.
C15_Witness ==
    /\ TopLevelTexts(<<"a", "b", "c">>)
    /\ block = NULL
    /\ position = 5
    /\ display = <<"$$", "a", "b", "c", "|", "$$">>

\* C16: from the empty expression, after the text leaves a, b, c, two
\* seekLeft and one backspace, toLatex() returns "ac".
C16_ScenarioAC ==
    EmptyExpression =>
        LET t == CursorToLatex(backspace(seekLeft(seekLeft(InsertedABC))))
        IN /\ ~t.thrown
           /\ t.latex = <<"a", "c">>

\* C16 amended: from the empty expression, after the text leaves a, b, c,
\* two seekLeft and one backspace, toLatex() returns "bc": the cursor was
\* between a and b, and backspace took out a; the cursor is at -0.5.
C16_ScenarioBC ==
    EmptyExpression =>
        LET t == CursorToLatex(backspace(seekLeft(seekLeft(InsertedABC))))
        IN /\ ~t.thrown
           /\ t.latex = <<"b", "c">>
           /\ t.block = NULL
           /\ t.component = NULL
           /\ t.position = -1

\* C16 witness: of the typed a, b, c the a was taken out by backspace
\* with the cursor between a and b.
C16_Witness ==
    /\ TopLevelTexts(<<"b", "c">>)
    /\ block = NULL
    /\ position = -1
    /\ display = <<"$$", "|", "b", "c", "$$">>

\* Block.toLatex of an empty Block of a component of this color.
Placeholder(color) == <<"\\color{", color, "}{\\boxed{&#8200;}}">>

\* The component c of s is a two-block template holding in its first
\* block one Text leaf with the string ch and nothing in its second, and
\* its markup is the template around ch and the placeholder.
TemplateHolds(s, c, ch) ==
    /\ IsComponent(s.heap, c)
    /\ s.heap[c].kind = "TemplateTwoBlockContinuousComponent"
    /\ Len(s.heap[c].blocks) = 2
    /\ LET b1 == s.heap[c].blocks[1]
           b2 == s.heap[c].blocks[2]
       IN /\ IsBlock(s.heap, b1) /\ IsBlock(s.heap, b2)
          /\ Len(s.heap[b1].children) = 1
          /\ ~IsString(s.heap[b1].children[1])
          /\ LET x == s.heap[b1].children[1].ref
             IN /\ s.heap[x].kind = "TextComponent"
                /\ s.heap[s.heap[x].blocks[1]].children = <<StrChild(ch)>>
          /\ s.heap[b2].children = <<>>
    /\ toLatex(s.heap, c) =
            <<"\\", s.heap[c].latexData, "{", ch, "}{">>
                \o Placeholder(s.heap[c].color) \o <<"}">>

\* C17: at top level, addComponent of a new two-block template and then
\* addText('x') leave 'x' the only child of the template's first block
\* and its second block empty; the template's markup has 'x' in the first
\* slot and the placeholder in the second.
C17_TemplateThenText ==
    block = NULL =>
        \A ch \in Characters \cup {"x"}, color \in ColorSet :
            LET t1 == InsertNew(Start, Fraction, block, color)
                t == addText(t1, ch)
            IN /\ ~t.thrown
               /\ ~IsNode(heap, t1.component)
               /\ At(Components(t), Ceil(position)) = t1.component
               /\ t.heap[t1.component].latexData = "dfrac"
               /\ t.heap[t1.component].color = color
               /\ TemplateHolds(t, t1.component, ch)

\* C17 witness: a template was inserted after a top-level component and
\* a character typed into it.
C17_Witness ==
    /\ IsBlock(heap, block)
    /\ position = 2
    /\ Len(exprs[expression]) >= 2
    /\ exprs[expression][2] = component
    /\ heap[component].blocks[1] = block
    /\ child = 1
    /\ \E ch \in Characters : TemplateHolds(Now, component, ch)

\* seq without its element i.
Without(seq, i) == SubSeq(seq, 1, i - 1) \o SubSeq(seq, i + 1, Len(seq))

\* The markup toLatex() returns in Now and the one toDisplayLatex()
\* returns.
PlainMarkup == ExpressionToLatex(heap, exprs[expression])
CaretMarkup == toDisplayLatex(Start).latex

\* C18: the string of toDisplayLatex is the string of toLatex with one
\* caret glyph put in and, when the cursor is in a block, one \boxed{ ... }
\* put around a stretch holding the caret; nothing else differs.
C18_DisplayDiffersByCaretAndFrame ==
    LET d == CaretMarkup
    IN IF block = NULL
       THEN \E j \in 1..Len(d) : d[j] = "|" /\ Without(d, j) = PlainMarkup
       ELSE \E i, j, k \in 1..Len(d) :
                /\ i < j /\ j < k
                /\ d[i] = "\\boxed{" /\ d[j] = "|" /\ d[k] = "}"
                /\ Without(Without(Without(d, k), j), i) = PlainMarkup

\* The markup of the tree of s read with the cursor in view, nothing
\* changed in the tree: the caret glyph stands among the elements of the
\* cursor's sequence after the first ceil(address) of them, and the
\* cursor's block is rendered inside \boxed{ }.
RECURSIVE Shown(_, _)
RECURSIVE ShownSeq(_, _)
ShownSeq(s, cs) ==
    IF cs = <<>> THEN <<>>
    ELSE (IF IsString(Head(cs)) THEN <<Head(cs).str>> ELSE Shown(s, Head(cs).ref))
         \o ShownSeq(s, Tail(cs))

Shown(s, id) ==
    LET n == s.heap[id]
        B(i) == Shown(s, n.blocks[i])
    IN CASE n.kind = "Block" ->
               IF id = s.block
               THEN LET k == Ceil(s.child)
                    IN <<"\\boxed{">>
                       \o Trim(ShownSeq(s, SubSeq(n.children, 1, k)) \o <<"|">>
                               \o ShownSeq(s, SubSeq(n.children, k + 1, Len(n.children))))
                       \o <<"}">>
               ELSE IF Len(n.children) = 0 THEN Placeholder(s.heap[n.parent].color)
               ELSE Trim(ShownSeq(s, n.children))
         [] n.kind = "TextComponent" -> B(1)
         [] n.kind = "MJXGUISymbol" -> <<n.latexData, " ">>
         [] n.kind = "Sqrt" -> <<"\\sqrt{">> \o B(1) \o <<"}">>
         [] n.kind = "TemplateTwoBlockContinuousComponent" ->
               <<"\\", n.latexData, "{">> \o B(1) \o <<"}{">> \o B(2) \o <<"}">>

ShownExpression(s) ==
    LET cs == [i \in 1..Len(Components(s)) |-> RefChild(Components(s)[i])]
        k == Ceil(s.position)
    IN IF s.block = NULL
       THEN Trim(ShownSeq(s, SubSeq(cs, 1, k)) \o <<"|">>
                    \o ShownSeq(s, SubSeq(cs, k + 1, Len(cs))))
       ELSE Trim(ShownSeq(s, cs))

\* C18 amended: the string of toDisplayLatex is the markup of the
\* unchanged tree with the caret glyph as one more element at the cursor's
\* address and \boxed{ } around the rendering of the cursor's block; so
\* a cursor block without children shows the caret and no placeholder,
\* and the blanks before the caret stay.
C18_DisplayIsMarkedMarkup == CaretMarkup = ShownExpression(Now)

\* C18 witness: the cursor is in a block between a symbol and another
\* child, and an empty block is elsewhere in the tree.
C18_Witness ==
    /\ IsBlock(heap, block)
    /\ child > -1
    /\ child < 2 * Len(heap[block].children) - 1
    /\ heap[ChildAt(heap, block, Floor(child))].kind = "MJXGUISymbol"
    /\ \E b \in NodeIds : IsBlock(heap, b) /\ b # block /\ Len(heap[b].children) = 0
                            /\ b \in TreeNodes(Now)

\* The Blocks of the tree of s.
TreeBlocks(s) == {id \in TreeNodes(s) : IsBlock(s.heap, id)}

\* In s the Block b renders as the placeholder in its component's color
\* when it has no children, and as something else when it has.
RendersByChildren(s, b) ==
    LET owner == s.heap[b].parent
        out == toLatex(s.heap, b)
    IN /\ IsComponent(s.heap, owner)
       /\ IF Len(s.heap[b].children) = 0
          THEN /\ out = Placeholder(s.heap[owner].color)
               /\ out # <<>>
               /\ s.heap[owner].color \in ColorSet
          ELSE /\ out # Placeholder(s.heap[owner].color)
               /\ out # <<>>
               /\ out[1] # "\\color{"

MatrixMarkup(h, m) ==
    LET rows == h[m].rows
        cols == h[m].cols
        Cell(i, j) == toLatex(h, h[m].blocks[(i * cols) + j + 1])
        Row(i) == Flatten([j \in 1..cols |->
                      Cell(i, j - 1) \o (IF j < cols THEN <<" ", "&", " ">> ELSE <<>>)])
    IN <<"\\begin{matrix}">>
       \o Flatten([i \in 1..rows |->
              Row(i - 1) \o (IF i < rows THEN <<" ", "\\\\", " ">> ELSE <<>>)])
       \o <<"\\end{matrix}">>

\* C20: a matrix component of rows x cols cells has rows*cols blocks and
\* renders them row by row (cell (i, j) is blocks[i*cols+j]) between
\* \begin{matrix} and \end{matrix}, with " & " after every cell that is not
\* the last of its row, " \\\\ " after the last cell of every row but the last
\* and nothing after the final cell; a matrix button "<r>x<c>" builds r x c
\* empty cells, and the empty 2x2 matrix is four placeholders with two
\* " & " and one " \\\\ ".
C20_MatrixMarkup ==
    /\ \A m \in NodeIds :
           heap[m].kind = "MatrixComponent" =>
               /\ heap[m].rows >= 1 /\ heap[m].cols >= 1
               /\ Len(heap[m].blocks) = heap[m].rows * heap[m].cols
               /\ \A i \in 1..Len(heap[m].blocks) :
                      IsBlock(heap, heap[m].blocks[i]) /\ heap[heap[m].blocks[i]].parent = m
               /\ toLatex(heap, m) = MatrixMarkup(heap, m)
    /\ \A size \in {[data |-> <<"1", "x", "2">>, rows |-> 1, cols |-> 2],
                     [data |-> <<"2", "x", "1">>, rows |-> 2, cols |-> 1],
                     [data |-> <<"2", "x", "2">>, rows |-> 2, cols |-> 2]},
          color \in ColorSet :
           LET t == InsertMatrix(Start, size.data, block, color)
               n == t.heap[t.component]
               P == Placeholder(color)
           IN /\ ~t.thrown
              /\ n.kind = "MatrixComponent"
              /\ n.rows = size.rows /\ n.cols = size.cols
              /\ Len(n.blocks) = size.rows * size.cols
              /\ \A i \in 1..Len(n.blocks) : t.heap[n.blocks[i]].children = <<>>
              /\ toLatex(t.heap, t.component) = MatrixMarkup(t.heap, t.component)
              /\ size.data = <<"2", "x", "2">> =>
                     toLatex(t.heap, t.component)
                         = <<"\\begin{matrix}">> \o P \o <<" ", "&", " ">> \o P
                             \o <<" ", "\\\\", " ">> \o P \o <<" ", "&", " ">> \o P
                             \o <<"\\end{matrix}">>

\* A 2x2 matrix in the tree whose cell (0, 1) holds something and whose
\* cell (1, 0) is empty.
C20_Witness ==
    \E m \in NodeIds :
        /\ heap[m].kind = "MatrixComponent"
        /\ heap[m].rows = 2 /\ heap[m].cols = 2
        /\ heap[heap[m].blocks[2]].children # <<>>
        /\ heap[heap[m].blocks[3]].children = <<>>

C22_CursorToLatexReadOnly ==
    /\ CursorToLatex(Start).latex = ExpressionToLatex(heap, exprs[expression])
    /\ CursorToLatex(Start) = Start

\* C22 amended: Cursor.toLatex returns the markup of the cursor's
\* expression, stores the string it returns in the cursor's latex field,
\* and changes neither the tree nor any other field of the cursor.
C22_CursorToLatexStoresMarkup ==
    LET t == CursorToLatex(Start)
    IN /\ t.latex = ExpressionToLatex(heap, exprs[expression])
       /\ t = [Start EXCEPT !.latex = t.latex]
       /\ CursorToLatex(t) = t

\* The cursor in a block that does not render as the whole expression.
C22_Witness ==
    /\ block # NULL
    /\ toLatex(heap, block) # ExpressionToLatex(heap, exprs[expression])
    /\ latex # ExpressionToLatex(heap, exprs[expression])

\* C23: a clearEquation call appends the expression being edited,
\* unmodified and without caret or frame, to the end of the history, leaves
\* the earlier entries as they were, makes one new empty Expression the
\* host's and the cursor's expression, and puts the cursor in its initial
\* state (block and component null, position and child -0.5), the state of
\* the cursor when it is constructed.
C23_ClearCommits ==
    LET t == clearEquation(Start)
    IN /\ ~t.thrown
       /\ Len(t.eqnHistory) = Len(eqnHistory) + 1
       /\ t.eqnHistory[Len(t.eqnHistory)] = hostExpression
       /\ \A i \in 1..Len(eqnHistory) : t.eqnHistory[i] = eqnHistory[i]
       /\ \A e \in 1..Len(exprs) : t.exprs[e] = exprs[e]
       /\ \A id \in NodeIds : t.heap[id] = heap[id]
       /\ t.hostExpression = t.expression
       /\ t.expression = Len(exprs) + 1 /\ Len(t.exprs) = Len(exprs) + 1
       /\ t.exprs[t.expression] = <<>>
       /\ \A i \in 1..Len(t.eqnHistory) : t.eqnHistory[i] # t.expression
       /\ t.block = NULL /\ t.component = NULL /\ t.position = -1 /\ t.child = -1
       /\ renders = 0 =>
              block = NULL /\ component = NULL /\ position = -1 /\ child = -1

\* One expression was committed, and the one being edited is not empty and
\* has the cursor in a block: the next clear has an earlier entry to keep
\* and a cursor to reset.
C23_Witness ==
    /\ Len(eqnHistory) = 1
    /\ exprs[eqnHistory[1]] # <<>>
    /\ block # NULL
    /\ position > 0

C25_BackspaceAtTopLevel ==
    (block = NULL /\ position > -1) =>
        LET t == backspace(Start)
            i == Floor(position)
            prev == exprs[expression][i + 1]
            last == heap[prev].blocks[Len(heap[prev].blocks)]
        IN /\ ~t.thrown
           /\ t.heap = heap
           /\ \A e \in 1..Len(exprs) : e # expression => t.exprs[e] = exprs[e]
           /\ IF IsLeaf(heap, prev)
              THEN /\ t.exprs[expression] = Without(exprs[expression], i + 1)
                   /\ t.position = position - 2
                   /\ t.block = NULL /\ t.component = NULL
                   /\ t.child = -1
              ELSE /\ t.exprs = exprs
                   /\ t.component = prev
                   /\ t.block = last
                   /\ t.child = 2 * Len(heap[last].children) - 1
                   /\ t.position = 2 * i

\* The cursor at top level right of a container of two blocks or more
\* whose last block has a child, a leaf at top level as well.
C25_Witness ==
    /\ block = NULL /\ position > -1
    /\ LET prev == exprs[expression][Floor(position) + 1]
       IN /\ Len(heap[prev].blocks) >= 2
          /\ heap[heap[prev].blocks[Len(heap[prev].blocks)]].children # <<>>
    /\ \E j \in 1..Len(exprs[expression]) : IsLeaf(heap, exprs[expression][j])

\* C26: backspace inside a component whose blocks are all empty removes
\* exactly that component from where it lies and puts the cursor in the
\* gap it leaves: a top-level component at index i leaves the cursor at
\* top level with position i - 0.5; child i of a block leaves the cursor in
\* that block, component the block's owner, child i - 0.5.
C26_BackspaceRemovesEmptyComponent ==
    (block # NULL /\ isEmpty(heap, component) = "true") =>
        LET t == backspace(Start)
            i == IndexOf(exprs[expression], component)
        IN /\ ~t.thrown
           /\ IF i >= 0
              THEN /\ t.exprs[expression] = Without(exprs[expression], i + 1)
                   /\ t.heap = heap
                   /\ t.block = NULL /\ t.component = NULL
                   /\ t.position = 2 * i - 1
              ELSE \E pb \in NodeIds :
                      /\ IsBlock(heap, pb)
                      /\ IndexOf(heap[pb].children, RefChild(component)) >= 0
                      /\ LET k == IndexOf(heap[pb].children, RefChild(component))
                         IN /\ t.heap[pb].children = Without(heap[pb].children, k + 1)
                            /\ \A id \in NodeIds \ {pb} : t.heap[id] = heap[id]
                            /\ t.exprs = exprs
                            /\ t.block = pb
                            /\ t.component = heap[pb].parent
                            /\ t.child = 2 * k - 1
                            /\ t.position = position

\* C27: backspace inside a component that is not empty, the cursor at the
\* left end of its block (child = -0.5), removes nothing: in a block that
\* is not the component's first the cursor goes to the right end of the
\* block before it in the same component; in the first block neither the
\* tree nor the cursor changes.
C27_BackspaceAtBlockStart ==
    (block # NULL /\ isEmpty(heap, component) = "false" /\ child = -1) =>
        LET t == backspace(Start)
            k == IndexOf(heap[component].blocks, block)
        IN /\ ~t.thrown
           /\ t.heap = heap /\ t.exprs = exprs
           /\ IF k = 0
              THEN t = Start
              ELSE /\ k > 0
                   /\ t.block = heap[component].blocks[k]
                   /\ t.child = 2 * Len(heap[t.block].children) - 1
                   /\ t.component = component
                   /\ t.position = position

\* The cursor at the left end of a block that is not the first of its
\* component, the block before it holding a child.
C27_Witness ==
    /\ block # NULL /\ child = -1
    /\ IndexOf(heap[component].blocks, block) > 0
    /\ heap[heap[component].blocks[IndexOf(heap[component].blocks, block)]].children # <<>>

\* C28: backspace inside a component that is not empty, the cursor right
\* of a child (child > -0.5), removes exactly the child at floor(child)
\* of the cursor's block, takes 1 off child and leaves component, block,
\* position and every other block as they were.
C28_BackspaceRemovesPrecedingChild ==
    (block # NULL /\ child > -1) =>
        LET t == backspace(Start)
        IN /\ ~t.thrown
           /\ isEmpty(heap, component) = "false"
           /\ t.heap[block].children = Without(heap[block].children, Floor(child) + 1)
           /\ \A id \in NodeIds \ {block} : t.heap[id] = heap[id]
           /\ t.heap[block] = [heap[block] EXCEPT !.children = t.heap[block].children]
           /\ t.exprs = exprs
           /\ t.child = child - 2
           /\ t.component = component /\ t.block = block /\ t.position = position

\* The cursor between two children of a block of a component that has
\* another block.
C28_Witness ==
    /\ block # NULL
    /\ child > -1 /\ child < 2 * Len(heap[block].children) - 1
    /\ Len(heap[component].blocks) >= 2

C30_CrossingABlockEdge ==
    block # NULL =>
        LET blocks == heap[component].blocks
            k == IndexOf(blocks, block)
            i == IndexOf(exprs[expression], component)
            Left(t, pb, gap) ==
                IF i >= 0
                THEN t.block = NULL /\ t.component = NULL /\ t.position = 2 * i + gap
                ELSE /\ t.block = pb
                     /\ t.component = heap[pb].parent
                     /\ t.child = 2 * IndexOf(heap[pb].children, RefChild(component)) + gap
                     /\ t.position = position
            Holder == {pb \in NodeIds :
                          IsBlock(heap, pb)
                          /\ IndexOf(heap[pb].children, RefChild(component)) >= 0}
            r == seekRight(Start)
            l == seekLeft(Start)
        IN /\ k >= 0
           /\ i < 0 => Cardinality(Holder) = 1
           /\ child = 2 * Len(heap[block].children) - 1 =>
                  /\ ~r.thrown /\ r.heap = heap /\ r.exprs = exprs
                  /\ IF k + 1 < Len(blocks)
                     THEN /\ r.block = blocks[k + 2] /\ r.child = -1
                          /\ r.component = component /\ r.position = position
                     ELSE \A pb \in (IF i >= 0 THEN {NULL} ELSE Holder) : Left(r, pb, 1)
           /\ child = -1 =>
                  /\ ~l.thrown /\ l.heap = heap /\ l.exprs = exprs
                  /\ IF k > 0
                     THEN /\ l.block = blocks[k]
                          /\ l.child = 2 * Len(heap[blocks[k]].children) - 1
                          /\ l.component = component /\ l.position = position
                     ELSE \A pb \in (IF i >= 0 THEN {NULL} ELSE Holder) : Left(l, pb, -1)

\* ------------------------------------------------------ claims C31 - C39
\* The component left of the cursor at top level.
LeftNeighbour(s) == At(Components(s), Floor(s.position))

\* C31: a call of removeComponent calls itself at most once, however many
\* calls are allowed; when backspace runs at top level with a leaf left of
\* the cursor (a TextComponent, or an MJXGUISymbol, which has no block),
\* removeComponent calls itself exactly once, the call inside makes no
\* further call, and backspace returns with the leaf removed.
C31_RemovalRecursesOnce ==
    /\ removeComponentCalls(Start, MaxNodes) <= 1
    /\ (block = NULL /\ IsLeaf(heap, LeftNeighbour(Now))) =>
          /\ removeComponentCalls(Start, MaxNodes) = 1
          /\ removeComponentCalls(
                 removeComponentOntoLeaf(Start, LeftNeighbour(Now)), MaxNodes) = 0
          /\ LET t == backspace(Start)
             IN /\ ~t.thrown
                /\ t.block = NULL
                /\ Len(Components(t)) = Len(exprs[expression]) - 1

\* C31 witness: the cursor is at top level right of an MJXGUISymbol, which
\* has no block, and a TextComponent is in the expression too.
C31_Witness ==
    /\ block = NULL
    /\ IsLeaf(heap, LeftNeighbour(Now))
    /\ heap[LeftNeighbour(Now)].kind = "MJXGUISymbol"
    /\ heap[LeftNeighbour(Now)].blocks = <<>>
    /\ \E i \in 1..Len(exprs[expression]) :
          heap[exprs[expression][i]].kind = "TextComponent"

\* C32: for every component of the tree, isEmpty() returns, and returns
\* true exactly when each Block in the component's blocks array has no
\* child: true for an MJXGUISymbol, which has no block, false for a
\* TextComponent holding its character.
C32_IsEmpty ==
    \A c \in TreeComponents(Now) :
        /\ isEmpty(heap, c) \in {"true", "false"}
        /\ isEmpty(heap, c) = "true" <=>
              \A i \in 1..Len(heap[c].blocks) :
                  Len(heap[heap[c].blocks[i]].children) = 0
        /\ heap[c].kind = "MJXGUISymbol" => isEmpty(heap, c) = "true"
        /\ heap[c].kind = "TextComponent" => isEmpty(heap, c) = "false"

\* C32 witness: the tree holds an MJXGUISymbol, a TextComponent, and a
\* component of two blocks whose first block is empty and whose second
\* is not.
C32_Witness ==
    /\ \E c \in TreeComponents(Now) : heap[c].kind = "MJXGUISymbol"
    /\ \E c \in TreeComponents(Now) : heap[c].kind = "TextComponent"
    /\ \E c \in TreeComponents(Now) :
          /\ Len(heap[c].blocks) = 2
          /\ Len(heap[heap[c].blocks[1]].children) = 0
          /\ Len(heap[heap[c].blocks[2]].children) > 0

\* The cursor of s is coherent: block and component are null together;
\* at top level position is in a gap of the expression and child is -0.5;
\* in a block position is the index of the top-level component that is,
\* or holds at some depth, the cursor's component.
Coherent(s) ==
    /\ s.block = NULL <=> s.component = NULL
    /\ s.block = NULL =>
          /\ IsGap(s.position)
          /\ -1 <= s.position
          /\ s.position <= 2 * Len(Components(s)) - 1
          /\ s.child = -1
    /\ s.block # NULL =>
          /\ OnElement(s.position)
          /\ s.position \div 2 \in 0..(Len(Components(s)) - 1)
          /\ LET w == Walk(s.heap, At(Components(s), s.position \div 2))
             IN \E i \in 1..Len(w) : w[i] = s.component

\* C33: after every completed operation block is null if and only if
\* component is null; when both are null, position is a half-integer from
\* -0.5 to components.length - 0.5 and child is -0.5; when neither is,
\* position is an integer and components[position] is the cursor's
\* component or holds it at some depth.
C33_CursorCoherence ==
    /\ Coherent(Now)
    /\ \A t \in Completed : Coherent(t)

\* C33 witness: the cursor is in a block of a component that is a child
\* of a block of the second top-level component.
C33_Witness ==
    /\ IsBlock(heap, block)
    /\ position = 2
    /\ component # exprs[expression][2]
    /\ IsComponent(heap, component)

\* C34: after every completed operation that leaves the cursor in a
\* block, the cursor's component is in the tree under
\* expression.components, the cursor's block is an element of that
\* component's blocks array, and child is a half-integer from -0.5 to
\* block.children.length - 0.5.
C34_CursorInTree ==
    \A t \in {Now} \cup Completed :
        t.block # NULL =>
            /\ t.component \in TreeComponents(t)
            /\ IsBlock(t.heap, t.block)
            /\ \E i \in 1..Len(t.heap[t.component].blocks) :
                  t.heap[t.component].blocks[i] = t.block
            /\ IsGap(t.child)
            /\ -1 <= t.child
            /\ t.child <= 2 * Len(t.heap[t.block].children) - 1

\* C34 witness: a backspace that removes the nested component the cursor
\* is in leaves the cursor in the block that held it, after the last of
\* the children left.
C34_Witness ==
    /\ IsBlock(heap, block)
    /\ IsBlock(heap, heap[component].parent)
    /\ LET t == backspace(Start)
       IN /\ t.block = heap[component].parent
          /\ component \notin TreeComponents(t)
          /\ t.child > -1
          /\ t.child = 2 * Len(t.heap[t.block].children) - 1

\* seekRight called again and again from s comes to the end of the
\* expression (top level, position = components.length - 0.5) without a
\* call failing and without the cursor being twice at one address; seen
\* holds the addresses the cursor was at.
RECURSIVE SeekRightReachesEnd(_, _)
SeekRightReachesEnd(s, seen) ==
    IF s.thrown THEN FALSE
    ELSE IF s.block = NULL /\ s.position = 2 * Len(Components(s)) - 1 THEN TRUE
    ELSE IF Address(s) \in seen THEN FALSE
    ELSE SeekRightReachesEnd(seekRight(s), seen \cup {Address(s)})

\* The same for seekLeft and the start of the expression (top level,
\* position = -0.5).
RECURSIVE SeekLeftReachesStart(_, _)
SeekLeftReachesStart(s, seen) ==
    IF s.thrown THEN FALSE
    ELSE IF s.block = NULL /\ s.position = -1 THEN TRUE
    ELSE IF Address(s) \in seen THEN FALSE
    ELSE SeekLeftReachesStart(seekLeft(s), seen \cup {Address(s)})

\* C35: from every reachable state, calls of seekRight alone bring the
\* cursor to top level at position = components.length - 0.5, and calls of
\* seekLeft alone to top level at position = -0.5, in finitely many calls
\* and without the cursor coming twice to one address on the way.
C35_SeekMakesProgress ==
    /\ SeekRightReachesEnd(Start, {})
    /\ SeekLeftReachesStart(Start, {})

\* C35 witness: the cursor is in the first block of a two-block component
\* nested in the first block of a two-block component.
C35_Witness ==
    /\ IsBlock(heap, block)
    /\ IsBlock(heap, heap[component].parent)
    /\ LET outer == heap[heap[component].parent].parent
       IN /\ Len(heap[outer].blocks) = 2
          /\ heap[outer].blocks[1] = heap[component].parent
    /\ Len(heap[component].blocks) = 2
    /\ heap[component].blocks[1] = block

\* C36: with the cursor at the end of the expression (top level,
\* position = components.length - 0.5), as many calls of backspace as the
\* tree has nodes, or fewer, leave the expression empty and the cursor at
\* top level at position = -0.5; no call fails.
C36_BackspaceEmptiesExpression ==
    (AtTopLevel /\ AtEnd) =>
        LET t == backspaceTimes(Start, Cardinality(TreeNodes(Now)))
        IN /\ ~t.thrown
           /\ Components(t) = <<>>
           /\ t.block = NULL
           /\ t.component = NULL
           /\ t.position = -1

\* C36 witness: the cursor is at the end of an expression of two or more
\* components whose last component has two blocks, neither empty.
C36_Witness ==
    /\ AtTopLevel
    /\ AtEnd
    /\ Len(exprs[expression]) >= 2
    /\ LET last == exprs[expression][Len(exprs[expression])]
       IN /\ Len(heap[last].blocks) = 2
          /\ Len(heap[heap[last].blocks[1]].children) > 0
          /\ Len(heap[heap[last].blocks[2]].children) > 0

\* backspace applied to the state t an insertion left brings back the
\* tree and the cursor of Now.
Undone(t) ==
    LET u == backspace(t)
    IN /\ ~t.thrown
       /\ ~u.thrown
       /\ SameTree(u)
       /\ Address(u) = Address(Now)

\* C37: from every reachable state, at top level or in a block at any
\* depth, addText(ch) followed by backspace, and addComponent of a new
\* component that is no leaf followed by backspace, leave the tree and the
\* cursor's component, block, position and child as they were before the
\* insertion; the new component is one a palette button or key builds
\* (its parent argument this.cursor.block) or one a button added by
\* registerFunction builds (no argument).
C37_SingleStepUndo ==
    /\ \A ch \in Characters : Undone(addText(Start, ch))
    /\ \A cls \in PaletteFunctions :
          /\ Undone(InsertNew(Start, cls, block, "red"))
          /\ Undone(InsertNew(Start, cls, UNDEF, "red"))

\* C38: while the cursor is in a block, addText and addComponent leave
\* expression.components and position as they were and, of the nodes of
\* the tree, change the cursor's block alone, and of it the children
\* alone; backspace leaves expression.components as it was unless the
\* cursor's component is a top-level component whose blocks are all
\* empty, and then takes out that component alone.
C38_BlockEditsKeepTopLevel ==
    block # NULL =>
        /\ \A t \in {addText(Start, "a")}
                    \cup {InsertNew(Start, cls, par, "red") :
                              cls \in PaletteFunctions \cup PaletteSymbols,
                              par \in {block, UNDEF}} :
              /\ ~t.thrown
              /\ t.exprs = exprs
              /\ t.position = position
              /\ \A id \in TreeNodes(Now) \ {block} : t.heap[id] = heap[id]
              /\ [t.heap[block] EXCEPT !.children = <<>>]
                    = [heap[block] EXCEPT !.children = <<>>]
              /\ t.heap[block].children # heap[block].children
        /\ LET t == backspace(Start)
               i == IndexOf(exprs[expression], component)
           IN /\ ~t.thrown
              /\ t.exprs # exprs =>
                    /\ i >= 0
                    /\ isEmpty(heap, component) = "true"
                    /\ t.exprs = [exprs EXCEPT ![expression] = ExpressionRemove(@, i)]

\* C38 witness: the cursor is in the second top-level component, whose
\* two blocks are empty, so that an insertion changes its first block and
\* backspace takes the component out of expression.components.
C38_Witness ==
    /\ IsBlock(heap, block)
    /\ position = 2
    /\ exprs[expression][2] = component
    /\ Len(heap[component].blocks) = 2
    /\ isEmpty(heap, component) = "true"
    /\ backspace(Start).exprs # exprs

\* C39: in the tree toDisplayLatex serializes, the caret is a new
\* TextComponent holding "|".  At top level it is the one extra element of
\* expression.components, at index ceil(position), and the tree holds no
\* FrameBox.  In a block it is the one extra child of the cursor's block,
\* at index ceil(child); the tree holds one FrameBox, which stands in the
\* cursor's component's blocks where the cursor's block stood and has
\* that block as its only block; the other blocks are where they were.
C39_CaretPlacement ==
    LET d == Decorate(Start)
        caret == CaretOf(Start)
        frame == FrameOf(Start)
        frames == {c \in TreeNodes(d) : d.heap[c].kind = "FrameBox"}
    IN /\ ~d.thrown
       /\ ~IsNode(heap, caret)
       /\ d.heap[caret].kind = "TextComponent"
       /\ d.heap[d.heap[caret].blocks[1]].children = <<StrChild("|")>>
       /\ block = NULL =>
             /\ InsertedAt(exprs[expression], Components(d), Ceil(position), caret)
             /\ frames = {}
             /\ \A id \in TreeNodes(Now) : d.heap[id] = heap[id]
       /\ block # NULL =>
             /\ d.exprs = exprs
             /\ InsertedAt(heap[block].children, d.heap[block].children,
                           Ceil(child), RefChild(caret))
             /\ frames = {frame}
             /\ d.heap[frame].blocks = <<block>>
             /\ LET i == IndexOf(heap[component].blocks, block)
                IN /\ i >= 0
                   /\ d.heap[component].blocks
                         = [heap[component].blocks EXCEPT ![i + 1] = frame]
             /\ \A id \in TreeNodes(Now) \ {block, component} : d.heap[id] = heap[id]

\* C39 witness: the cursor is in the second block of a two-block
\* component, between two children of that block.
C39_Witness ==
    /\ IsBlock(heap, block)
    /\ Len(heap[component].blocks) = 2
    /\ heap[component].blocks[2] = block
    /\ child > -1
    /\ child < 2 * Len(heap[block].children) - 1

====
